---- MODULE Spec2Model ----
(***************************************************************************)
(* Model of the nautilus_full backtest core: the per-instrument order      *)
(* matching engine, the order state machine, the execution engine's       *)
(* event processing, position accounting and the venue account.           *)
(*                                                                         *)
(* Units.  Price values (Price objects of the instrument, precision 2)    *)
(* are integers in cents.  Order-book level prices are unquantized        *)
(* Decimals in the source; they are integers in "raw" units of 1/RawScale *)
(* cent.  Quantities are whole units (size precision 0).  Money is in     *)
(* cents.  A price of 0 stands for None / attribute absent.               *)
(***************************************************************************)
EXTENDS Integers, Sequences, FiniteSets, TLC

\* ------------------------------------------------------------------------
\* Bounds of the model
\* ------------------------------------------------------------------------
MaxOrders == 2

MaxMarketEvents == 2

MaxBarOrders == 3

MaxBars == 2

MaxTifOrders == 2

MaxTifEvents == 2

MaxData == 3

MaxTwoOrders == 3

MaxTwoBars == 1

MaxTrailOrders == 2

MaxTrailEvents == 3

MaxS6Orders == 2

MaxGtdOrders == 2

MaxLimitOrders == 2

MaxLimitEvents == 2

MaxTimers == 2

MaxSubscriptions == 2

MaxPublished == 1

MaxFlipOrders == 3

MaxFlipEvents == 2

MaxRuns == 2

MaxBookEvents == 3

MaxBookOrders == 1

MaxTickOrders == 2

MaxTickEvents == 3
\* Orders and market events of SpecClose
MaxCloseOrders == 3
MaxCloseEvents == 2

\* ------------------------------------------------------------------------
\* Program constants
\* ------------------------------------------------------------------------
RawScale == 1000

SpreadDenominator == 10000

BpDenominator == 10000

BarBookSize == 1000000000

NoPrice == 0

NoId == 0

Max(a, b) == IF a >= b THEN a ELSE b

Min(a, b) == IF a <= b THEN a ELSE b

\* Decimal.quantize(ROUND_HALF_UP) of a non-negative raw value to cents
Quantize(raw) == (raw + (RawScale \div 2)) \div RawScale

\* ------------------------------------------------------------------------
\* Order state machine
\* ------------------------------------------------------------------------
OrderStatus ==
    {"INITIALIZED", "DENIED", "SUBMITTED", "ACCEPTED", "REJECTED", "CANCELED",
     "EXPIRED", "TRIGGERED", "PENDING_UPDATE", "PENDING_CANCEL",
     "PARTIALLY_FILLED", "FILLED"}

ORDER_STATUS_TRANSITIONS(st) ==
    CASE st = "INITIALIZED" -> {"DENIED", "SUBMITTED"}
      [] st = "SUBMITTED" -> {"ACCEPTED", "REJECTED", "CANCELED"}
      [] st = "ACCEPTED" ->
            {"CANCELED", "EXPIRED", "TRIGGERED", "PENDING_UPDATE",
             "PENDING_CANCEL", "PARTIALLY_FILLED", "FILLED"}
      [] st = "TRIGGERED" ->
            {"CANCELED", "EXPIRED", "PENDING_UPDATE", "PENDING_CANCEL",
             "PARTIALLY_FILLED", "FILLED"}
      [] st = "PENDING_UPDATE" ->
            {"ACCEPTED", "CANCELED", "EXPIRED", "TRIGGERED",
             "PARTIALLY_FILLED", "FILLED"}
      [] st = "PENDING_CANCEL" ->
            {"CANCELED", "ACCEPTED", "PARTIALLY_FILLED", "FILLED"}
      [] st = "PARTIALLY_FILLED" ->
            {"CANCELED", "EXPIRED", "PENDING_UPDATE", "PENDING_CANCEL",
             "PARTIALLY_FILLED", "FILLED"}
      [] OTHER -> {}

is_open(o) ==
    o.status \in {"ACCEPTED", "TRIGGERED", "PENDING_UPDATE", "PENDING_CANCEL",
                  "PARTIALLY_FILLED"}

is_closed(o) ==
    o.status \in {"DENIED", "REJECTED", "CANCELED", "EXPIRED", "FILLED"}

is_filled(o) == o.status = "FILLED"

\* hasattr(order, "price"): LimitOrder, StopLimitOrder, LimitIfTouchedOrder,
\* TrailingStopLimitOrder
has_price(o) ==
    o.order_type \in {"LIMIT", "STOP_LIMIT", "LIMIT_IF_TOUCHED",
                      "TRAILING_STOP_LIMIT"}

\* hasattr(order, "trigger_price")
has_trigger_price(o) ==
    o.order_type \in {"STOP_MARKET", "STOP_LIMIT", "MARKET_IF_TOUCHED",
                      "LIMIT_IF_TOUCHED", "TRAILING_STOP_MARKET",
                      "TRAILING_STOP_LIMIT"}

\* Order.__init__: the order as the factory creates it.  The fields of the
\* trailing orders (trailing_offset, trailing_offset_type, limit_offset,
\* extreme_price, is_activated) and expire_time_ns have the values of an
\* order created without them.
NewOrder(strategy_id, side, order_type, quantity, price, trigger_price, tif, post_only, reduce_only, order_list_id) ==
    [strategy_id |-> strategy_id, reduce_only |-> reduce_only,
     side |-> side, order_type |-> order_type, quantity |-> quantity,
     time_in_force |-> tif, post_only |-> post_only,
     contingency_type |-> IF order_list_id = NoId THEN "NO_CONTINGENCY" ELSE "OCO",
     order_list_id |-> order_list_id,
     status |-> "INITIALIZED", filled_qty |-> 0, leaves_qty |-> quantity,
     position_id |-> NoId,
     price |-> price, trigger_price |-> trigger_price, is_triggered |-> FALSE,
     trailing_offset |-> 0, trailing_offset_type |-> "PRICE",
     limit_offset |-> 0, extreme_price |-> NoPrice, is_activated |-> FALSE,
     expire_time_ns |-> 0]

\* TrailingStopMarketOrder.__init__ / TrailingStopLimitOrder.__init__ on top
\* of Order.__init__: the order is activated at once if it has no trigger price
NewTrailingStop(o, trailing_offset, trailing_offset_type, limit_offset) ==
    [o EXCEPT !.trailing_offset = trailing_offset,
              !.trailing_offset_type = trailing_offset_type,
              !.limit_offset = limit_offset,
              !.is_activated = (o.trigger_price = NoPrice)]

\* Price(value, precision) of a value given in 1/BpDenominator cent, rounded
\* half-up to a cent
QuantizeBp(v) == (v + (BpDenominator \div 2)) \div BpDenominator

\* TrailingStopMarketOrder._compute_offset, in 1/BpDenominator cent
compute_offset(o, mp) ==
    IF o.trailing_offset_type = "BASIS_POINTS" THEN mp * o.trailing_offset
    ELSE o.trailing_offset * BpDenominator

\* The activation block of update_trigger
activate(o, mp) ==
    IF o.is_activated THEN o
    ELSE IF o.trigger_price = NoPrice THEN [o EXCEPT !.is_activated = TRUE]
    ELSE IF o.side = "SELL" /\ mp >= o.trigger_price
    THEN [o EXCEPT !.is_activated = TRUE]
    ELSE IF o.side = "BUY" /\ mp <= o.trigger_price
    THEN [o EXCEPT !.is_activated = TRUE]
    ELSE o

\* The ratchet of update_trigger without its guards: the trigger follows the
\* market price in both directions
ratchet_unguarded(o, mp) ==
    LET new_trigger == IF o.side = "SELL"
                       THEN mp * BpDenominator - compute_offset(o, mp)
                       ELSE mp * BpDenominator + compute_offset(o, mp)
    IN [o EXCEPT !.extreme_price = mp, !.trigger_price = QuantizeBp(new_trigger)]

\* The ratchet of update_trigger: a new extreme of the market price moves
\* the trigger, and only towards the market
ratchet(o, mp) ==
    LET new_trigger == IF o.side = "SELL"
                       THEN mp * BpDenominator - compute_offset(o, mp)
                       ELSE mp * BpDenominator + compute_offset(o, mp)
        is_extreme == \/ o.extreme_price = NoPrice
                      \/ (o.side = "SELL" /\ mp > o.extreme_price)
                      \/ (o.side = "BUY" /\ mp < o.extreme_price)
        moves == \/ o.trigger_price = NoPrice
                 \/ (o.side = "SELL"
                     /\ new_trigger > o.trigger_price * BpDenominator)
                 \/ (o.side = "BUY"
                     /\ new_trigger < o.trigger_price * BpDenominator)
    IN IF ~is_extreme THEN o
       ELSE IF ~moves THEN [o EXCEPT !.extreme_price = mp]
       ELSE [o EXCEPT !.extreme_price = mp,
                      !.trigger_price = QuantizeBp(new_trigger)]

\* TrailingStopMarketOrder.update_trigger: the order after the call and the
\* value returned
update_trigger(o, mp) ==
    LET o1 == activate(o, mp)
        o2 == ratchet(o1, mp)
        hit == /\ o2.trigger_price # NoPrice
               /\ IF o2.side = "SELL" THEN mp <= o2.trigger_price
                  ELSE mp >= o2.trigger_price
    IN IF ~o1.is_activated THEN [order |-> o1, triggered |-> FALSE]
       ELSE IF hit THEN [order |-> [o2 EXCEPT !.is_triggered = TRUE],
                         triggered |-> TRUE]
       ELSE [order |-> o2, triggered |-> FALSE]

\* TrailingStopLimitOrder.get_limit_price
get_limit_price(o) ==
    IF o.price # NoPrice THEN o.price
    ELSE IF o.trigger_price = NoPrice THEN NoPrice
    ELSE IF o.side = "SELL" THEN o.trigger_price - o.limit_offset
    ELSE o.trigger_price + o.limit_offset

\* A state machine without the table lookup: every requested status is taken
transition_unchecked(o, new_status) ==
    [ok |-> TRUE, order |-> [o EXCEPT !.status = new_status]]

\* Order._transition: ok = FALSE stands for the RuntimeError; the order keeps
\* every field it had when _transition was called.
transition(o, new_status) ==
    IF new_status \in ORDER_STATUS_TRANSITIONS(o.status)
    THEN [ok |-> TRUE, order |-> [o EXCEPT !.status = new_status]]
    ELSE [ok |-> FALSE, order |-> o]

\* Order._apply_filled: the quantities are assigned before _transition runs
apply_filled(o, last_qty) ==
    LET new_filled == o.filled_qty + last_qty
        o1 == [o EXCEPT !.filled_qty = new_filled,
                        !.leaves_qty = Max(0, o.quantity - new_filled)]
        new_status == IF o1.leaves_qty = 0 THEN "FILLED" ELSE "PARTIALLY_FILLED"
    IN transition(o1, new_status)

\* Order._apply_updated and the subclasses' overrides: the base class sets
\* quantity and leaves_qty and calls _transition(ACCEPTED); the subclass
\* assigns price / trigger_price only after super() has returned.
apply_updated(o, quantity, price, trigger_price) ==
    LET o1 == IF quantity # 0
              THEN [o EXCEPT !.quantity = quantity,
                             !.leaves_qty = Max(0, quantity - o.filled_qty)]
              ELSE o
        t == transition(o1, "ACCEPTED")
        o2 == t.order
        o3 == IF price # NoPrice /\ has_price(o2)
              THEN [o2 EXCEPT !.price = price] ELSE o2
        o4 == IF trigger_price # NoPrice /\ has_trigger_price(o3)
              THEN [o3 EXCEPT !.trigger_price = trigger_price] ELSE o3
    IN IF t.ok THEN [ok |-> TRUE, order |-> o4] ELSE t

\* Order.apply for the events that map 1:1 to a status
apply_status(o, new_status) == transition(o, new_status)

\* ------------------------------------------------------------------------
\* State.  The operators below are the methods of the engine; each takes the
\* engine state s (a record of the variables) and returns the state after
\* the method has run.
\* ------------------------------------------------------------------------
VARIABLES
    orders,              \* Cache._orders: client order id (1..n) -> Order
    resting,             \* OrderMatchingEngine._resting (keys, insertion order)
    stops,               \* OrderMatchingEngine._stops (keys, insertion order)
    trailing_stops,      \* OrderMatchingEngine._trailing_stops
    contingency_groups,  \* OrderMatchingEngine._contingency_groups
    book,                \* OrderBook: bids best-first, asks best-first
    last_price,          \* OrderMatchingEngine._last_price
    account,             \* CashAccount balance of the base currency
    positions,           \* Cache._positions: position id (1..n) -> Position
    emitted,             \* events published while the last handler ran
    fill_sum,            \* per order: sum of last_qty of the OrderFilled events emitted
    raised,              \* the last handler ended with an uncaught RuntimeError
    config,              \* venue / instrument configuration of the run
    market_events,       \* number of market events processed so far
    data,                \* BacktestEngine._data
    cursor,              \* BacktestEngine.run: index of the loop's next datum
    pc,                  \* BacktestEngine.run: "setup", "running", "stopped", "aborted"
    processed,           \* the data the loop has dispatched, in dispatch order
    handlers,            \* MessageBus._exact of the data topic, in subscription order
    bus,                 \* MessageBus: _exact, _prefix, _sent_count, and the calls of the last publish
    clock,               \* TestClock: _time_ns, _timers, and the callbacks of the last advance
    balance_curve,       \* BacktestEngine.run: the local balance_curve
    results              \* the BacktestResult of every run that has ended, in order

vars == <<orders, resting, stops, trailing_stops, contingency_groups, book,
          last_price, account, positions, emitted, fill_sum, raised, config,
          market_events, data, cursor, pc, processed, handlers, bus, clock,
          balance_curve, results>>

loop_vars == <<data, cursor, pc, processed, handlers>>

run_vars == <<balance_curve, results>>

aux_vars == <<bus, clock, balance_curve, results>>

engine_vars ==
    <<orders, resting, stops, trailing_stops, contingency_groups, book,
      last_price, account, positions, emitted, fill_sum, raised, config,
      market_events>>

State ==
    [orders |-> orders, resting |-> resting, stops |-> stops,
     trailing_stops |-> trailing_stops,
     contingency_groups |-> contingency_groups, book |-> book,
     last_price |-> last_price, account |-> account, positions |-> positions,
     emitted |-> <<>>, fill_sum |-> fill_sum, raised |-> FALSE, ts |-> 0]

\* The engine state at the dispatch of a datum with the timestamp ts_event:
\* ts is the argument the process_ methods pass down to the events they emit
StateAt(ts_event) == [State EXCEPT !.ts = ts_event]

Range(q) == {q[i] : i \in 1..Len(q)}

\* dict.pop(key, None)
Remove(q, id) == SelectSeq(q, LAMBDA x : x # id)

\* dict[key] = value: an existing key keeps its place in the iteration order
Put(q, id) == IF id \in Range(q) THEN q ELSE Append(q, id)

\* MessageBus.publish of an order or position event, as the strategy sees it
publish_event(s, type, id, qty, px) ==
    [s EXCEPT !.emitted = Append(@,
        [type |-> type, id |-> id, qty |-> qty, px |-> px,
         status |-> IF type \in {"PositionOpened", "PositionChanged", "PositionClosed"}
                    THEN "" ELSE s.orders[id].status,
         last_price |-> s.last_price, ts_event |-> s.ts])]

\* ------------------------------------------------------------------------
\* Position
\* ------------------------------------------------------------------------
PnlScale == 1000

Multiplier == 1

\* Position.avg_px_open, in units of 1/PnlScale cent
avg_px_open(p) ==
    IF p.signed_qty > 0
    THEN (IF p.buy_qty # 0 THEN (p.buy_cost * PnlScale) \div p.buy_qty ELSE 0)
    ELSE IF p.signed_qty < 0
    THEN (IF p.sell_qty # 0 THEN (p.sell_cost * PnlScale) \div p.sell_qty ELSE 0)
    ELSE 0

position_is_open(p) == p.signed_qty # 0

position_is_closed(p) == p.signed_qty = 0 /\ p.n_events > 0

\* Position._apply_fill; realized_pnl is kept in units of 1/PnlScale cent
position_apply_fill(p, side, qty, px, commission) ==
    LET p0 == [p EXCEPT !.commissions = @ + commission]
    IN IF side = "BUY"
       THEN LET close_qty == Min(qty, -p0.signed_qty)
                realized == close_qty * (avg_px_open(p0) - px * PnlScale) * Multiplier
                p1 == IF p0.signed_qty < 0
                      THEN [p0 EXCEPT !.realized_pnl = @ + realized - commission * PnlScale]
                      ELSE p0
            IN [p1 EXCEPT !.signed_qty = @ + qty, !.buy_qty = @ + qty,
                          !.buy_cost = @ + qty * px]
       ELSE LET close_qty == Min(qty, p0.signed_qty)
                realized == close_qty * (px * PnlScale - avg_px_open(p0)) * Multiplier
                p1 == IF p0.signed_qty > 0
                      THEN [p0 EXCEPT !.realized_pnl = @ + realized - commission * PnlScale]
                      ELSE p0
            IN [p1 EXCEPT !.signed_qty = @ - qty, !.sell_qty = @ + qty,
                          !.sell_cost = @ + qty * px]

\* Position.__init__: applies the opening fill, the event list stays empty
NewPosition(strategy_id, side, qty, px, commission) ==
    position_apply_fill(
        [strategy_id |-> strategy_id, signed_qty |-> 0, buy_qty |-> 0, sell_qty |-> 0, buy_cost |-> 0,
         sell_cost |-> 0, realized_pnl |-> 0, commissions |-> 0, n_events |-> 0],
        side, qty, px, commission)

\* Position.apply
position_apply(p, side, qty, px, commission) ==
    [position_apply_fill(p, side, qty, px, commission) EXCEPT !.n_events = @ + 1]

\* ------------------------------------------------------------------------
\* Execution engine
\* ------------------------------------------------------------------------
\* ExecutionEngine._open_position
open_position(s, id, qty, px, commission) ==
    LET pos_id == Len(s.positions) + 1
        pos == NewPosition(s.orders[id].strategy_id, s.orders[id].side, qty, px,
                           commission)
        s1 == [s EXCEPT !.positions = Append(@, pos),
                        !.orders[id].position_id = pos_id]
    IN publish_event(s1, "PositionOpened", pos_id, qty, px)

\* _publish_position_closed if the position is closed, else _publish_position_changed
publish_position_update(s, pos_id, qty, px) ==
    IF position_is_closed(s.positions[pos_id])
    THEN publish_event(s, "PositionClosed", pos_id, qty, px)
    ELSE publish_event(s, "PositionChanged", pos_id, qty, px)

\* pos.apply(event) followed by the publish of the position's update
apply_to_position(s, pos_id, id, qty, px, commission) ==
    publish_position_update(
        [s EXCEPT !.positions[pos_id] =
             position_apply(@, s.orders[id].side, qty, px, commission)],
        pos_id, qty, px)

\* Cache.positions_open(instrument_id, strategy_id): Cache.positions selects
\* by the instrument whenever an instrument is given and then does not look
\* at strategy_id; the run has one instrument
positions_open(s, strategy_id) ==
    {i \in 1..Len(s.positions) : position_is_open(s.positions[i])}

\* ExecutionEngine._handle_fill_netting
handle_fill_netting(s, id, qty, px, commission) ==
    IF positions_open(s, s.orders[id].strategy_id) = {}
    THEN open_position(s, id, qty, px, commission)
    ELSE LET pos_id == CHOOSE i \in positions_open(s, s.orders[id].strategy_id) :
                          \A j \in positions_open(s, s.orders[id].strategy_id) : i <= j
         IN apply_to_position(s, pos_id, id, qty, px, commission)

\* ExecutionEngine._handle_fill_hedging
handle_fill_hedging(s, id, qty, px, commission) ==
    IF s.orders[id].position_id # NoId
    THEN apply_to_position(s, s.orders[id].position_id, id, qty, px, commission)
    ELSE open_position(s, id, qty, px, commission)

\* ExecutionEngine._handle_fill
handle_fill(s, id, qty, px, commission) ==
    IF config.oms_type = "NETTING"
    THEN handle_fill_netting(s, id, qty, px, commission)
    ELSE handle_fill_hedging(s, id, qty, px, commission)

\* ExecutionEngine.process_event for an event that maps to a status: the
\* RuntimeError of an illegal transition is caught, the event is published
process_event(s, type, id, new_status) ==
    LET t == apply_status(s.orders[id], new_status)
        s1 == [s EXCEPT !.orders[id] = t.order]
    IN publish_event(s1, type, id, 0, NoPrice)

\* ExecutionEngine.process_event for OrderFilled: order.apply(event) in a
\* try block, then _handle_fill, then the publish
process_event_filled(s, id, qty, px, commission) ==
    publish_event(
        handle_fill([s EXCEPT !.orders[id] = apply_filled(@, qty).order],
                    id, qty, px, commission),
        "Filled", id, qty, px)

\* ------------------------------------------------------------------------
\* Account and fees
\* ------------------------------------------------------------------------
\* Account.update_balance
update_balance(acc, total, locked) ==
    [acc EXCEPT !.total = total, !.locked = locked,
                !.free = Max(total - locked, 0)]

\* SimulatedExchange._update_account_on_fill followed by update_commissions
update_account_on_fill(s, side, qty, px, commission) ==
    LET acc == s.account
        cost == qty * px + commission
        revenue == qty * px - commission
        acc1 == IF side = "BUY"
                THEN update_balance(acc, Max(acc.free - cost, 0), acc.locked)
                ELSE update_balance(acc, acc.free + revenue, acc.locked)
    IN [s EXCEPT !.account = [acc1 EXCEPT !.commissions = @ + commission]]

\* MakerTakerFeeModel.calculate: Money(notional * rate), quantized half-up to
\* cents; the instrument's fee rates are in basis points
calculate_fee(qty, px, liquidity_side) ==
    LET rate == IF liquidity_side = "MAKER" THEN config.maker_fee
                ELSE config.taker_fee
    IN (qty * px * Multiplier * rate + (BpDenominator \div 2)) \div BpDenominator

\* CashAccount.can_submit_order
can_submit_order(s, quantity, price) == ~(s.account.free < quantity * price)

\* ------------------------------------------------------------------------
\* Matching engine: event firing
\* ------------------------------------------------------------------------
\* SimulatedExchange._on_fill
on_fill(s, id, qty, px, commission) ==
    process_event_filled(
        update_account_on_fill(s, s.orders[id].side, qty, px, commission),
        id, qty, px, commission)

\* OrderMatchingEngine._fire_cancel: order.apply(event) then the callback
\* into ExecutionEngine.process_event
fire_cancel(s, id) ==
    LET t == apply_status(s.orders[id], "CANCELED")
    IN IF ~t.ok THEN [s EXCEPT !.raised = TRUE]
       ELSE process_event([s EXCEPT !.orders[id] = t.order],
                          "Canceled", id, "CANCELED")

\* OrderMatchingEngine._fire_triggered
fire_triggered(s, id) ==
    LET t == apply_status(s.orders[id], "TRIGGERED")
    IN IF ~t.ok THEN [s EXCEPT !.raised = TRUE]
       ELSE process_event([s EXCEPT !.orders[id] = t.order],
                          "Triggered", id, "TRIGGERED")

\* The loop of OrderMatchingEngine._handle_contingency_fill over the group
RECURSIVE cancel_siblings(_, _, _)
cancel_siblings(s, id, siblings) ==
    IF siblings = <<>> \/ s.raised THEN s
    ELSE LET sid == Head(siblings)
             found == sid \in Range(s.resting) \/ sid \in Range(s.stops)
                      \/ sid \in Range(s.trailing_stops)
             \* resting.pop(sid) or stops.pop(sid) or trailing_stops.pop(sid)
             s1 == IF sid \in Range(s.resting)
                   THEN [s EXCEPT !.resting = Remove(@, sid)]
                   ELSE IF sid \in Range(s.stops)
                   THEN [s EXCEPT !.stops = Remove(@, sid)]
                   ELSE [s EXCEPT !.trailing_stops = Remove(@, sid)]
             s2 == IF sid = id THEN s
                   ELSE IF found /\ is_open(s1.orders[sid])
                   THEN fire_cancel(s1, sid)
                   ELSE s1
         IN cancel_siblings(s2, id, Tail(siblings))

\* OrderMatchingEngine._handle_contingency_fill
handle_contingency_fill(s, id) ==
    LET o == s.orders[id]
    IN IF o.contingency_type = "OCO" /\ o.order_list_id # NoId
       THEN cancel_siblings(s, id, s.contingency_groups[o.order_list_id])
       ELSE s

\* The end of _fire_fill: if order.is_filled, _handle_contingency_fill
contingency_if_filled(s, id) ==
    IF is_filled(s.orders[id]) THEN handle_contingency_fill(s, id) ELSE s

\* OrderMatchingEngine._fire_fill
fire_fill(s, id, fill_px, fill_qty_d, liquidity_side) ==
    LET o == s.orders[id]
        fill_qty == Min(fill_qty_d, o.leaves_qty)
        commission == calculate_fee(fill_qty, fill_px, liquidity_side)
        t == apply_filled(o, fill_qty)
    IN IF s.raised \/ is_closed(o) \/ ~is_open(o) THEN s
       ELSE IF fill_qty = 0 THEN s
       ELSE IF ~t.ok THEN [s EXCEPT !.orders[id] = t.order, !.raised = TRUE]
       ELSE contingency_if_filled(
                on_fill([s EXCEPT !.orders[id] = t.order,
                                  !.fill_sum[id] = @ + fill_qty],
                        id, fill_qty, fill_px, commission),
                id)

\* OrderMatchingEngine._register_contingency
register_contingency(s, id) ==
    LET o == s.orders[id]
    IN IF o.contingency_type = "NO_CONTINGENCY" \/ o.order_list_id = NoId THEN s
       ELSE [s EXCEPT !.contingency_groups[o.order_list_id] = Put(@, id)]

\* ------------------------------------------------------------------------
\* Trigger predicates
\* ------------------------------------------------------------------------
\* OrderMatchingEngine._is_stop_triggered
is_stop_triggered(o, price) ==
    IF price = NoPrice \/ ~has_trigger_price(o) THEN FALSE
    ELSE IF o.trigger_price = NoPrice THEN FALSE
    ELSE IF o.side = "BUY" THEN price >= o.trigger_price
    ELSE price <= o.trigger_price

\* OrderMatchingEngine._is_mit_triggered
is_mit_triggered(o, price) ==
    IF price = NoPrice \/ ~has_trigger_price(o) THEN FALSE
    ELSE IF o.trigger_price = NoPrice THEN FALSE
    ELSE IF o.side = "BUY" THEN price <= o.trigger_price
    ELSE price >= o.trigger_price

\* ------------------------------------------------------------------------
\* Order book.  A level is <<raw price, size>>; bids and asks are best-first.
\* ------------------------------------------------------------------------
EmptyBook == [bids |-> <<>>, asks |-> <<>>]

\* OrderBook.update_from_bar: bid = close*(1 - spread/2), ask = close*(1 + spread/2)
update_from_bar(bar) ==
    LET mid == bar.close * RawScale
        half_spread == mid \div (2 * SpreadDenominator)
    IN [bids |-> << <<mid - half_spread, BarBookSize>> >>,
        asks |-> << <<mid + half_spread, BarBookSize>> >>]

\* OrderBook.update_from_quote: _update_level drops a level of size <= 0
update_from_quote(tick) ==
    [bids |-> IF tick.bid_size <= 0 THEN <<>>
              ELSE << <<tick.bid_price * RawScale, tick.bid_size>> >>,
     asks |-> IF tick.ask_size <= 0 THEN <<>>
              ELSE << <<tick.ask_price * RawScale, tick.ask_size>> >>]

\* OrderBook._delete_level on the levels of one side
delete_level(levels, price) == SelectSeq(levels, LAMBDA l : l[1] # price)

\* OrderBook._update_level on the levels of one side: a size <= 0 deletes the
\* level, a new price is inserted in price order (bisect.insort), a known
\* price gets the size added or replaced
update_level(levels, side, price, size, add) ==
    IF size <= 0 THEN delete_level(levels, price)
    ELSE IF \E k \in 1..Len(levels) : levels[k][1] = price
    THEN [k \in 1..Len(levels) |->
             IF levels[k][1] = price
             THEN <<price, IF add THEN levels[k][2] + size ELSE size>>
             ELSE levels[k]]
    ELSE SelectSeq(levels, LAMBDA l : IF side = "BUY" THEN l[1] > price
                                      ELSE l[1] < price)
         \o << <<price, size>> >>
         \o SelectSeq(levels, LAMBDA l : IF side = "BUY" THEN l[1] < price
                                       ELSE l[1] > price)

\* OrderBook.apply_delta; the price of the delta's order is in cents
apply_delta(b, delta) ==
    LET px == delta.price * RawScale
    IN IF delta.action = "CLEAR" THEN EmptyBook
       ELSE IF delta.side = "BUY"
       THEN [b EXCEPT !.bids =
                IF delta.action = "DELETE" THEN delete_level(@, px)
                ELSE update_level(@, "BUY", px, delta.size, delta.action = "ADD")]
       ELSE [b EXCEPT !.asks =
                IF delta.action = "DELETE" THEN delete_level(@, px)
                ELSE update_level(@, "SELL", px, delta.size, delta.action = "ADD")]

\* OrderBook.best_bid_price / best_ask_price (NoPrice for None)
best_bid_price(b) == IF b.bids = <<>> THEN NoPrice ELSE b.bids[1][1]

best_ask_price(b) == IF b.asks = <<>> THEN NoPrice ELSE b.asks[1][1]

\* OrderBook.simulate_market_fill: the loop over the opposite side's levels
RECURSIVE sweep_levels(_, _)
sweep_levels(levels, remaining) ==
    IF levels = <<>> \/ remaining <= 0 THEN <<>>
    ELSE LET fill_qty == Min(remaining, Head(levels)[2])
         IN << <<Head(levels)[1], fill_qty>> >>
            \o sweep_levels(Tail(levels), remaining - fill_qty)

simulate_market_fill(b, side, quantity) ==
    sweep_levels(IF side = "BUY" THEN b.asks ELSE b.bids, quantity)

RECURSIVE SumQty(_)
SumQty(fills) == IF fills = <<>> THEN 0 ELSE Head(fills)[2] + SumQty(Tail(fills))

\* ------------------------------------------------------------------------
\* Matching
\* ------------------------------------------------------------------------
\* The fill loop of OrderMatchingEngine._match_market
RECURSIVE market_fills(_, _, _)
market_fills(s, id, fills) ==
    IF fills = <<>> \/ s.raised \/ s.orders[id].leaves_qty = 0 THEN s
    ELSE LET fill_qty == Min(Head(fills)[2], s.orders[id].leaves_qty)
         IN market_fills(
                fire_fill(s, id, Quantize(Head(fills)[1]), fill_qty, "TAKER"),
                id, Tail(fills))

\* The end of _match_market: an IOC order's remainder is canceled
cancel_ioc_remainder(s, id) ==
    IF ~s.raised /\ s.orders[id].time_in_force = "IOC"
       /\ s.orders[id].leaves_qty # 0
    THEN fire_cancel(s, id)
    ELSE s

\* OrderMatchingEngine._match_market
match_market(s, id) ==
    LET o == s.orders[id]
        fills == simulate_market_fill(s.book, o.side, o.leaves_qty)
    IN IF o.time_in_force = "FOK" /\ SumQty(fills) < o.leaves_qty
       THEN fire_cancel(s, id)
       ELSE cancel_ioc_remainder(market_fills(s, id, fills), id)

\* The loops of OrderMatchingEngine._fill_limit over asks (BUY) or bids (SELL)
RECURSIVE limit_fills(_, _, _, _)
limit_fills(s, id, levels, liquidity_side) ==
    IF levels = <<>> \/ s.raised THEN s
    ELSE LET o == s.orders[id]
             px_d == Head(levels)[1]
             limit == o.price * RawScale
             beyond == IF o.side = "BUY" THEN px_d > limit ELSE px_d < limit
             fill_qty == Min(Head(levels)[2], o.leaves_qty)
             fill_px == IF o.side = "BUY" THEN Min(px_d, limit)
                        ELSE Max(px_d, limit)
         IN IF beyond \/ o.leaves_qty = 0 THEN s
            ELSE limit_fills(
                     fire_fill(s, id, Quantize(fill_px), fill_qty, liquidity_side),
                     id, Tail(levels), liquidity_side)

\* OrderMatchingEngine._fill_limit
fill_limit(s, id, liquidity_side) ==
    IF ~has_price(s.orders[id]) THEN s
    ELSE IF s.last_price = NoPrice /\ best_bid_price(s.book) = NoPrice THEN s
    ELSE limit_fills(s, id,
                     IF s.orders[id].side = "BUY" THEN s.book.asks ELSE s.book.bids,
                     liquidity_side)

\* A _would_fill_immediately that never sees a crossing order
would_fill_immediately_never(s, id) == FALSE

\* OrderMatchingEngine._would_fill_immediately
would_fill_immediately(s, id) ==
    LET o == s.orders[id]
    IN IF o.side = "BUY"
       THEN best_ask_price(s.book) # NoPrice
            /\ o.price * RawScale >= best_ask_price(s.book)
       ELSE best_bid_price(s.book) # NoPrice
            /\ o.price * RawScale <= best_bid_price(s.book)

\* The end of _match_limit_or_rest: the remainder is canceled (IOC, FOK) or rests
rest_remainder(s, id) ==
    IF s.raised THEN s
    ELSE IF s.orders[id].leaves_qty # 0 /\ ~is_closed(s.orders[id])
    THEN (IF s.orders[id].time_in_force \in {"IOC", "FOK"}
          THEN fire_cancel(s, id)
          ELSE [s EXCEPT !.resting = Put(@, id)])
    ELSE s

\* OrderMatchingEngine._match_limit_or_rest
match_limit_or_rest(s, id) ==
    IF s.orders[id].post_only /\ would_fill_immediately(s, id)
    THEN process_event(s, "Canceled", id, "CANCELED")
    ELSE rest_remainder(fill_limit(s, id, "TAKER"), id)

\* self._resting[order.client_order_id] = order
rest_order(s, id) ==
    IF s.raised THEN s ELSE [s EXCEPT !.resting = Put(@, id)]

\* OrderMatchingEngine._remove_resting
remove_resting(s, id) ==
    IF s.raised THEN s ELSE [s EXCEPT !.resting = Remove(@, id)]

\* if order.is_filled or order.is_closed: self._remove_resting(oid)
remove_if_done(s, id) ==
    IF ~s.raised /\ (is_filled(s.orders[id]) \/ is_closed(s.orders[id]))
    THEN remove_resting(s, id)
    ELSE s

\* OrderMatchingEngine._convert_stop_limit
convert_stop_limit(s, id) ==
    rest_order(fire_triggered([s EXCEPT !.orders[id].is_triggered = TRUE], id),
               id)

\* OrderMatchingEngine._check_single_order
check_single_order(s, id, market_price) ==
    LET o == s.orders[id]
    IN IF ~has_price(o) \/ market_price = NoPrice THEN s
       ELSE IF o.leaves_qty = 0 \/ is_closed(o) THEN remove_resting(s, id)
       ELSE remove_if_done(fill_limit(s, id, "MAKER"), id)

\* The loop of OrderMatchingEngine._check_resting_orders over list(_resting)
RECURSIVE check_resting_loop(_, _)
check_resting_loop(s, ids) ==
    IF ids = <<>> \/ s.raised THEN s
    ELSE LET oid == Head(ids)
             s1 == IF oid \notin Range(s.resting) \/ ~is_open(s.orders[oid])
                   THEN [s EXCEPT !.resting = Remove(@, oid)]
                   ELSE check_single_order(s, oid, s.last_price)
         IN check_resting_loop(s1, Tail(ids))

\* OrderMatchingEngine._get_ts
get_ts == 0

\* OrderMatchingEngine._check_resting_orders: the events of the loop carry
\* ts = self._get_ts()
check_resting_orders(s) ==
    [check_resting_loop([s EXCEPT !.ts = get_ts], s.resting) EXCEPT !.ts = s.ts]

\* ------------------------------------------------------------------------
\* Bar traversal
\* ------------------------------------------------------------------------
\* Step 1 of _process_at_price: the loop over the resting market orders
RECURSIVE fill_market_orders(_, _, _)
fill_market_orders(s, ids, price) ==
    IF ids = <<>> \/ s.raised THEN s
    ELSE fill_market_orders(
             remove_resting(
                 fire_fill(s, Head(ids), price, s.orders[Head(ids)].leaves_qty,
                           "TAKER"),
                 Head(ids)),
             Tail(ids), price)

\* Step 1 of _process_at_price: resting market orders, at the bar open only
process_market_orders(s, price, visit) ==
    IF visit # "open" THEN s
    ELSE fill_market_orders(
             s,
             SelectSeq(s.resting,
                 LAMBDA i : s.orders[i].order_type = "MARKET" /\ is_open(s.orders[i])),
             price)

\* Step 2 of _process_at_price: the condition that collects a parked order
fires(s, i, price) ==
    is_stop_triggered(s.orders[i], price) \/ is_mit_triggered(s.orders[i], price)

\* Step 2 of _process_at_price: the fill of a triggered StopMarket / MIT order
fill_triggered(s, id, fill_px) ==
    IF s.raised THEN s
    ELSE fire_fill(s, id, fill_px, s.orders[id].leaves_qty, "TAKER")

\* Step 2 of _process_at_price: the body of the loop over the triggered orders
run_one_triggered(s, id, price) ==
    LET o == s.orders[id]
        fill_px == IF o.side = "BUY" THEN Max(o.trigger_price, price)
                   ELSE Min(o.trigger_price, price)
    IN IF o.order_type \in {"STOP_MARKET", "MARKET_IF_TOUCHED"}
       THEN fill_triggered(fire_triggered(s, id), id, fill_px)
       ELSE IF o.order_type \in {"STOP_LIMIT", "LIMIT_IF_TOUCHED"}
       THEN convert_stop_limit(s, id)
       ELSE s

\* Step 2 of _process_at_price, second loop: the orders collected as triggered
RECURSIVE run_triggered(_, _, _)
run_triggered(s, ids, price) ==
    IF ids = <<>> \/ s.raised THEN s
    ELSE run_triggered(run_one_triggered(s, Head(ids), price), Tail(ids), price)

\* Step 2 of _process_at_price: the first loop pops the closed and the
\* triggered orders from _stops, the second loop runs the triggered ones
process_triggers(s, price) ==
    IF s.raised THEN s
    ELSE run_triggered(
             [s EXCEPT !.stops =
                  SelectSeq(@, LAMBDA i : is_open(s.orders[i]) /\ ~fires(s, i, price))],
             SelectSeq(s.stops, LAMBDA i : is_open(s.orders[i]) /\ fires(s, i, price)),
             price)

\* A should_fill that lets every visited price fill the order
should_fill_any_price(o, price, visit) == TRUE

\* Step 3 of _process_at_price: should_fill
should_fill(o, price, visit) ==
    \/ (visit = "high" /\ o.side = "SELL" /\ price >= o.price)
    \/ (visit = "low" /\ o.side = "BUY" /\ price <= o.price)
    \/ (visit = "open"
        /\ ((o.side = "BUY" /\ price <= o.price)
            \/ (o.side = "SELL" /\ price >= o.price)))

\* Step 3 of _process_at_price: the body of the loop over list(_resting)
fill_one_resting(s, oid, price, visit) ==
    LET o == s.orders[oid]
        fill_px == IF o.side = "BUY" THEN Min(o.price, price)
                   ELSE Max(o.price, price)
    IN IF oid \notin Range(s.resting) \/ ~is_open(o) THEN remove_resting(s, oid)
       ELSE IF ~has_price(o) THEN s
       ELSE IF ~should_fill(o, price, visit) THEN s
       ELSE remove_if_done(fire_fill(s, oid, fill_px, o.leaves_qty, "MAKER"), oid)

\* Step 3 of _process_at_price: the loop over list(_resting)
RECURSIVE fill_resting_at_price(_, _, _, _)
fill_resting_at_price(s, ids, price, visit) ==
    IF ids = <<>> \/ s.raised THEN s
    ELSE fill_resting_at_price(fill_one_resting(s, Head(ids), price, visit),
                               Tail(ids), price, visit)

\* Step 3 of _process_at_price
process_resting(s, price, visit) ==
    IF s.raised THEN s ELSE fill_resting_at_price(s, s.resting, price, visit)

\* OrderMatchingEngine._process_at_price
process_at_price(s, price, visit) ==
    IF s.raised THEN s
    ELSE process_resting(
             process_triggers(
                 process_market_orders([s EXCEPT !.last_price = price], price, visit),
                 price),
             price, visit)

\* The loop of OrderMatchingEngine._expire_day_orders over list(_resting)
RECURSIVE expire_day_orders_loop(_, _)
expire_day_orders_loop(s, ids) ==
    IF ids = <<>> \/ s.raised THEN s
    ELSE LET oid == Head(ids)
             t == apply_status(s.orders[oid], "EXPIRED")
             s1 == [s EXCEPT !.resting = Remove(@, oid)]
             s2 == IF s.orders[oid].time_in_force # "DAY" THEN s
                   ELSE IF ~t.ok THEN [s1 EXCEPT !.raised = TRUE]
                   ELSE process_event([s1 EXCEPT !.orders[oid] = t.order],
                                      "Expired", oid, "EXPIRED")
         IN expire_day_orders_loop(s2, Tail(ids))

\* OrderMatchingEngine._expire_day_orders
expire_day_orders(s) == expire_day_orders_loop(s, s.resting)

\* self._last_price = bar.close
set_last_price(s, price) ==
    IF s.raised THEN s ELSE [s EXCEPT !.last_price = price]

\* The branch of a triggered order with the fill priced at the market price
fill_trailing_at_market(s, id, market_price) ==
    LET o == s.orders[id]
    IN IF s.raised THEN s
       ELSE IF o.order_type = "TRAILING_STOP_LIMIT"
       THEN [s EXCEPT !.orders[id].price = get_limit_price(o),
                      !.resting = Put(@, id)]
       ELSE fire_fill(s, id, market_price, o.leaves_qty, "TAKER")

\* _update_trailing_stops, the branch of a triggered order: a trailing stop
\* limit rests at its limit price, a trailing stop market fills at its
\* trigger price
fill_trailing(s, id, market_price) ==
    LET o == s.orders[id]
        fill_px == IF o.trigger_price # NoPrice THEN o.trigger_price
                   ELSE market_price
    IN IF s.raised THEN s
       ELSE IF o.order_type = "TRAILING_STOP_LIMIT"
       THEN [s EXCEPT !.orders[id].price = get_limit_price(o),
                      !.resting = Put(@, id)]
       ELSE fire_fill(s, id, fill_px, o.leaves_qty, "TAKER")

\* _update_trailing_stops, the body of the loop over list(_trailing_stops)
update_one_trailing(s, id, market_price) ==
    LET u == update_trigger(s.orders[id], market_price)
        s1 == [s EXCEPT !.orders[id] = u.order]
    IN IF ~is_open(s.orders[id])
       THEN [s EXCEPT !.trailing_stops = Remove(@, id)]
       ELSE IF ~u.triggered THEN s1
       ELSE fill_trailing(
                fire_triggered([s1 EXCEPT !.trailing_stops = Remove(@, id)], id),
                id, market_price)

\* OrderMatchingEngine._update_trailing_stops
RECURSIVE update_trailing_loop(_, _, _)
update_trailing_loop(s, ids, market_price) ==
    IF ids = <<>> \/ s.raised THEN s
    ELSE update_trailing_loop(update_one_trailing(s, Head(ids), market_price),
                              Tail(ids), market_price)

update_trailing_stops(s, market_price) ==
    IF s.raised THEN s ELSE update_trailing_loop(s, s.trailing_stops, market_price)

\* OrderMatchingEngine.process_bar
process_bar(s, bar) ==
    expire_day_orders(
        update_trailing_stops(
            set_last_price(
                process_at_price(
                    process_at_price(
                        process_at_price([s EXCEPT !.book = update_from_bar(bar)],
                                         bar.open, "open"),
                        bar.high, "high"),
                    bar.low, "low"),
                bar.close),
            bar.close))

\* OrderMatchingEngine.process_quote_tick: the mid is a Price, quantized
\* half-up to a cent
process_quote_tick(s, tick) ==
    LET mid == (tick.bid_price + tick.ask_price + 1) \div 2
    IN check_resting_orders(
           update_trailing_stops(
               [s EXCEPT !.last_price = mid, !.book = update_from_quote(tick)],
               mid))

\* OrderMatchingEngine.process_trade_tick
process_trade_tick(s, tick) ==
    check_resting_orders(
        update_trailing_stops([s EXCEPT !.last_price = tick.price], tick.price))

\* OrderMatchingEngine.process_book_delta
process_book_delta(s, delta) ==
    check_resting_orders([s EXCEPT !.book = apply_delta(@, delta)])

\* The handler of a strategy whose on_bar / on_quote_tick returns, and of one
\* whose callback raises
HandlerKinds == {"ok", "raises"}


\* ------------------------------------------------------------------------
\* Order commands
\* ------------------------------------------------------------------------
\* OrderMatchingEngine.process_order
engine_process_order(s, id) ==
    LET s1 == register_contingency(s, id)
        o == s.orders[id]
        park == [s1 EXCEPT !.stops = Put(@, id)]
    IN CASE o.order_type = "MARKET" -> match_market(s1, id)
         [] o.order_type = "LIMIT" -> match_limit_or_rest(s1, id)
         [] o.order_type = "STOP_MARKET" ->
                IF is_stop_triggered(o, s.last_price) THEN match_market(s1, id)
                ELSE park
         [] o.order_type = "STOP_LIMIT" ->
                IF is_stop_triggered(o, s.last_price)
                THEN convert_stop_limit(s1, id) ELSE park
         [] o.order_type = "MARKET_IF_TOUCHED" ->
                IF is_mit_triggered(o, s.last_price) THEN match_market(s1, id)
                ELSE park
         [] o.order_type = "LIMIT_IF_TOUCHED" ->
                IF is_mit_triggered(o, s.last_price) THEN rest_order(s1, id)
                ELSE park
         [] o.order_type \in {"TRAILING_STOP_MARKET", "TRAILING_STOP_LIMIT"} ->
                [s1 EXCEPT !.trailing_stops = Put(@, id)]
         [] OTHER -> s1

\* SimulatedExchange._check_balance: the price the cost is estimated with
check_balance(s, id) ==
    LET o == s.orders[id]
        bp == IF o.side = "BUY" THEN best_ask_price(s.book)
              ELSE best_bid_price(s.book)
        price_to_use == IF has_price(o) /\ o.price # NoPrice THEN o.price
                        ELSE IF has_trigger_price(o) /\ o.trigger_price # NoPrice
                        THEN o.trigger_price
                        ELSE IF bp # NoPrice THEN Quantize(bp)
                        ELSE NoPrice
    IN IF price_to_use = NoPrice THEN TRUE
       ELSE can_submit_order(s, o.quantity, price_to_use)

\* SimulatedExchange.process_order
exchange_process_order(s, id) ==
    IF ~check_balance(s, id)
    THEN process_event(s, "Rejected", id, "REJECTED")
    ELSE engine_process_order(process_event(s, "Accepted", id, "ACCEPTED"), id)

\* Sum of the signed quantities of a set of positions
RECURSIVE SumSigned(_, _)
SumSigned(s, ids) ==
    IF ids = {} THEN 0
    ELSE LET i == CHOOSE x \in ids : TRUE
         IN s.positions[i].signed_qty + SumSigned(s, ids \ {i})

\* Portfolio.net_position(instrument_id, strategy_id)
net_position(s, strategy_id) == SumSigned(s, positions_open(s, strategy_id))

\* RiskEngine.check_order: TRUE if the order passes.  The engine of the run
\* has trading_state ACTIVE and no max_notional_per_order, which leaves the
\* reduce-only validation
check_order(s, id) ==
    LET o == s.orders[id]
        net_qty == net_position(s, o.strategy_id)
    IN IF ~o.reduce_only THEN TRUE
       ELSE IF net_qty = 0 THEN FALSE
       ELSE IF o.side = "BUY" /\ net_qty >= 0 THEN FALSE
       ELSE IF o.side = "SELL" /\ net_qty <= 0 THEN FALSE
       ELSE TRUE

\* ExecutionEngine.submit_order.  A denied order was never added to the
\* cache, so process_event finds no order to apply OrderDenied to and only
\* publishes the event
submit_order(s, id) ==
    IF ~check_order(s, id) THEN publish_event(s, "Denied", id, 0, NoPrice)
    ELSE exchange_process_order(process_event(s, "Submitted", id, "SUBMITTED"),
                                id)

\* A cancel that leaves the order in the queues of the matching engine
cancel_order_keep_queues(s, id) == fire_cancel(s, id)

\* OrderMatchingEngine.cancel_order
cancel_order(s, id) ==
    fire_cancel([s EXCEPT !.resting = Remove(@, id), !.stops = Remove(@, id),
                          !.trailing_stops = Remove(@, id)], id)

\* OrderMatchingEngine.modify_order: order.apply(OrderUpdated) is not guarded
modify_order(s, id, quantity, price, trigger_price) ==
    LET t == apply_updated(s.orders[id], quantity, price, trigger_price)
        s1 == [s EXCEPT !.orders[id] = t.order]
    IN IF ~t.ok THEN [s1 EXCEPT !.raised = TRUE]
       ELSE IF id \in Range(s1.resting)
       THEN check_single_order(s1, id, s1.last_price)
       ELSE s1

\* Strategy.submit_order of a new market order from the order factory
submit_market(s, side, quantity) ==
    submit_order([s EXCEPT !.orders = Append(@,
                      NewOrder(1, side, "MARKET", quantity, NoPrice, NoPrice,
                               "GTC", FALSE, FALSE, NoId)),
                           !.fill_sum = Append(@, 0)],
                 Len(s.orders) + 1)

\* Strategy.close_position: returns for a position that is not open, else
\* submits a reduce-only market order of the opposite side for
\* position.quantity; the order carries no position_id
close_position(s, pos_id) ==
    IF ~position_is_open(s.positions[pos_id]) THEN s
    ELSE LET p == s.positions[pos_id]
             side == IF p.signed_qty > 0 THEN "SELL" ELSE "BUY"
             quantity == IF p.signed_qty < 0 THEN -p.signed_qty ELSE p.signed_qty
         IN submit_order([s EXCEPT !.orders = Append(@,
                              NewOrder(p.strategy_id, side, "MARKET", quantity,
                                       NoPrice, NoPrice, "GTC", FALSE, TRUE, NoId)),
                                   !.fill_sum = Append(@, 0)],
                         Len(s.orders) + 1)

\* The strategy's handler of a datum (on_bar, on_quote_tick): "ok" returns,
\* "buys" submits a market BUY of 10
on_data(s, kind) ==
    IF kind = "buys" THEN submit_market(s, "BUY", 10) ELSE s

\* The loop of MessageBus.publish over the exact-match subscriptions: the
\* handlers are called in subscription order, an exception of a handler
\* leaves the loop and publish
RECURSIVE publish(_, _, _)
publish(s, type, subs) ==
    IF subs = <<>> THEN s
    ELSE LET s1 == [s EXCEPT !.emitted = Append(@,
                        [type |-> type, id |-> NoId, qty |-> 0, px |-> NoPrice,
                         status |-> "", last_price |-> s.last_price,
                         ts_event |-> s.ts])]
         IN IF Head(subs) = "raises" THEN [s1 EXCEPT !.raised = TRUE]
            ELSE publish(on_data(s1, Head(subs)), type, Tail(subs))

\* DataEngine.process_bar / process_quote_tick: MessageBus.publish of the datum
\* to the strategy's on_bar / on_quote_tick handler
publish_data(s, type) == IF s.raised THEN s ELSE publish(s, type, handlers)

\* The Bar branch with the two dispatches exchanged: the data engine first
run_bar_data_first(s, bar) == process_bar(publish_data(s, "Bar"), bar)

\* BacktestEngine.run, the Bar branch: exchange.process_bar(datum), then
\* data_engine.process_bar(datum)
run_bar(s, bar) == publish_data(process_bar(s, bar), "Bar")

\* BacktestEngine.run, the QuoteTick branch
run_quote_tick(s, tick) == publish_data(process_quote_tick(s, tick), "QuoteTick")

\* BacktestEngine.run, the TradeTick branch
run_trade_tick(s, tick) == publish_data(process_trade_tick(s, tick), "TradeTick")

\* BacktestEngine.run, the OrderBookDelta branch
run_book_delta(s, delta) ==
    publish_data(process_book_delta(s, delta), "OrderBookDelta")

\* ------------------------------------------------------------------------
\* Inputs of the runs: configurations, orders the strategy creates, market data
\* ------------------------------------------------------------------------
Cfg(oms_type, starting_balance, maker_fee, taker_fee) ==
    [oms_type |-> oms_type, starting_balance |-> starting_balance,
     maker_fee |-> maker_fee, taker_fee |-> taker_fee]

Tpl(side, order_type, quantity, price, trigger_price, order_list_id) ==
    [side |-> side, order_type |-> order_type, quantity |-> quantity,
     price |-> price, trigger_price |-> trigger_price,
     time_in_force |-> "GTC", post_only |-> FALSE,
     strategy_id |-> 1, reduce_only |-> FALSE,
     order_list_id |-> order_list_id]

Bar(o, h, l, c) == [open |-> o, high |-> h, low |-> l, close |-> c]

Quote(bid_price, ask_price, bid_size, ask_size) ==
    [bid_price |-> bid_price, ask_price |-> ask_price,
     bid_size |-> bid_size, ask_size |-> ask_size]

OrderListIds == {1}

\* The three bars of the end-to-end scenarios S1, S2 and S3
BarS1 == Bar(10000, 11000, 9500, 10500)

BarS2 == Bar(10200, 10600, 9400, 9800)

BarS3 == Bar(10100, 11200, 9900, 10800)

\* Inputs of Spec: limit, market and OCO orders, bars and quotes of limited size
Configs ==
    {Cfg("NETTING", 100000, 10, 10)}

OrderTemplates ==
    {Tpl("BUY", "MARKET", 10, NoPrice, NoPrice, NoId),
     Tpl("BUY", "LIMIT", 10, 10000, NoPrice, NoId),
     Tpl("BUY", "LIMIT", 10, 10000, NoPrice, 1),
     Tpl("SELL", "STOP_MARKET", 10, NoPrice, 9500, 1)}

Bars == {BarS1}

QuoteTicks == {Quote(9900, 10000, 5, 5), Quote(9900, 10000, 4, 4)}

Modifications ==
    {[quantity |-> 5, price |-> 10500, trigger_price |-> NoPrice]}

\* Inputs of SpecBars: the orders and bars of the scenarios S1, S2 and S3 and
\* one parked order of each triggered type
BarConfigs == {Cfg("NETTING", 10000000, 0, 0), Cfg("HEDGING", 10000000, 0, 0)}

BarOrderTemplates ==
    {Tpl("BUY", "MARKET", 10, NoPrice, NoPrice, NoId),
     Tpl("BUY", "LIMIT", 10, 10000, NoPrice, NoId),
     Tpl("SELL", "LIMIT", 10, 11000, NoPrice, 1),
     Tpl("SELL", "STOP_MARKET", 10, NoPrice, 9600, NoId),
     Tpl("SELL", "STOP_MARKET", 10, NoPrice, 9500, 1),
     Tpl("BUY", "MARKET_IF_TOUCHED", 10, NoPrice, 9500, NoId),
     Tpl("SELL", "STOP_LIMIT", 10, 9400, 9600, NoId),
     Tpl("BUY", "LIMIT_IF_TOUCHED", 10, 9900, 9500, NoId)}

ScenarioBars == {BarS1, BarS2, BarS3}

\* Inputs of SpecTif: market and limit orders with a time in force of FOK or
\* IOC, admitted against quotes that offer less than, or all of, their size
TplTif(side, order_type, quantity, price, time_in_force) ==
    [side |-> side, order_type |-> order_type, quantity |-> quantity,
     price |-> price, trigger_price |-> NoPrice,
     time_in_force |-> time_in_force, post_only |-> FALSE,
     strategy_id |-> 1, reduce_only |-> FALSE,
     order_list_id |-> NoId]

TifConfigs == {Cfg("NETTING", 10000000, 0, 0)}

\* The arguments of OrderFactory.stop_market / stop_limit with a time in force
TplTifStop(side, order_type, price, trigger_price, time_in_force) ==
    [TplTif(side, order_type, 10, price, time_in_force)
        EXCEPT !.trigger_price = trigger_price]

TifOrderTemplates ==
    {TplTif("BUY", "MARKET", 10, NoPrice, "FOK"),
     TplTif("BUY", "LIMIT", 10, 10000, "FOK"),
     TplTif("SELL", "LIMIT", 10, 9900, "FOK"),
     TplTif("SELL", "MARKET", 10, NoPrice, "IOC"),
     TplTif("BUY", "LIMIT", 10, 10000, "IOC"),
     TplTifStop("SELL", "STOP_MARKET", NoPrice, 9500, "IOC"),
     TplTifStop("BUY", "STOP_LIMIT", 10600, 10500, "FOK")}

TifQuoteTicks ==
    {Quote(9900, 10000, 4, 4), Quote(9900, 10000, 10, 10),
     Quote(10000, 10100, 12, 12)}

\* ------------------------------------------------------------------------
\* Message bus.  A topic is the sequence of its characters.  _exact and
\* _prefix are dicts: sequences of entries [key, subs] in insertion order.
\* A subscription is [sub_id, topic, handler]; the handler of a subscription
\* logs its call and then returns ("log"), subscribes a new logging handler
\* to a topic ("subscribe") or unsubscribes a subscription it holds
\* ("unsubscribe").
\* ------------------------------------------------------------------------
\* MessageBus.__init__.  delivered lists the sub_ids of the handlers called by
\* the last publish, failed tells that it ended with a RuntimeError
NewBus ==
    [exact |-> <<>>, prefix |-> <<>>, sent_count |-> 0, next_id |-> 1,
     delivered |-> <<>>, failed |-> FALSE]

\* topic.endswith(".*")
is_wildcard(topic) ==
    /\ Len(topic) >= 2
    /\ topic[Len(topic) - 1] = "."
    /\ topic[Len(topic)] = "*"

\* topic[:-2]
strip_wildcard(topic) == SubSeq(topic, 1, Len(topic) - 2)

\* A startswith that holds for the prefix itself only
startswith_whole(topic, prefix) == topic = prefix

\* str.startswith
startswith(topic, prefix) ==
    /\ Len(prefix) <= Len(topic)
    /\ SubSeq(topic, 1, Len(prefix)) = prefix

\* The index of a key in a dict, 0 if the key is absent
index_of(d, key) ==
    IF \E k \in 1..Len(d) : d[k].key = key
    THEN CHOOSE k \in 1..Len(d) : d[k].key = key
    ELSE 0

\* dict.get(key, [])
get_subs(d, key) == IF index_of(d, key) = 0 THEN <<>> ELSE d[index_of(d, key)].subs

\* d[key] = subs: a new key goes to the end of the dict
set_subs(d, key, subs) ==
    IF index_of(d, key) = 0 THEN Append(d, [key |-> key, subs |-> subs])
    ELSE [d EXCEPT ![index_of(d, key)].subs = subs]

\* MessageBus.subscribe; sub_id is the id the bus generates
subscribe(b, topic, handler) ==
    LET sub == [sub_id |-> b.next_id, topic |-> topic, handler |-> handler]
        b1 == [b EXCEPT !.next_id = @ + 1]
    IN IF is_wildcard(topic)
       THEN [b1 EXCEPT !.prefix = set_subs(@, strip_wildcard(topic),
                           Append(get_subs(@, strip_wildcard(topic)), sub))]
       ELSE [b1 EXCEPT !.exact = set_subs(@, topic,
                           Append(get_subs(@, topic), sub))]

\* MessageBus.unsubscribe of a subscription handle [sub_id, topic]
unsubscribe(b, subscription) ==
    LET keep(subs) == SelectSeq(subs, LAMBDA x : x.sub_id # subscription.sub_id)
        topic == subscription.topic
    IN IF is_wildcard(topic)
       THEN [b EXCEPT !.prefix = set_subs(@, strip_wildcard(topic),
                          keep(get_subs(@, strip_wildcard(topic))))]
       ELSE [b EXCEPT !.exact = set_subs(@, topic, keep(get_subs(@, topic)))]

\* sub.handler(message): the call is logged, then the handler acts
call_handler(b, sub) ==
    LET b1 == [b EXCEPT !.delivered = Append(@, sub.sub_id)]
        h == sub.handler
    IN CASE h.kind = "subscribe" ->
                subscribe(b1, h.topic, [kind |-> "log", topic |-> <<>>, sub_id |-> 0])
         [] h.kind = "unsubscribe" ->
                unsubscribe(b1, [sub_id |-> h.sub_id, topic |-> h.topic])
         [] OTHER -> b1

\* for sub in list(subs): sub.handler(message) -- the loop runs over a copy
RECURSIVE call_handlers(_, _)
call_handlers(b, subs) ==
    IF subs = <<>> THEN b
    ELSE call_handlers(call_handler(b, Head(subs)), Tail(subs))

\* The loop of publish over self._prefix.items(): the dict itself is
\* iterated, k is the position of the iterator and size the number of keys
\* the dict had when the loop began.  The iterator raises RuntimeError
\* ("dictionary changed size during iteration") when it is asked for the
\* next item of a dict whose size has changed; the value of a key is read
\* when the iterator reaches it.
RECURSIVE dispatch_prefix(_, _, _, _)
dispatch_prefix(b, topic, k, size) ==
    IF Len(b.prefix) # size THEN [b EXCEPT !.failed = TRUE]
    ELSE IF k > Len(b.prefix) THEN b
    ELSE dispatch_prefix(
             IF startswith(topic, b.prefix[k].key)
             THEN call_handlers(b, b.prefix[k].subs) ELSE b,
             topic, k + 1, size)

\* MessageBus.publish
bus_publish(b, topic) ==
    LET b1 == call_handlers(
                  [b EXCEPT !.sent_count = @ + 1, !.delivered = <<>>,
                            !.failed = FALSE],
                  get_subs(b.exact, topic))
    IN dispatch_prefix(b1, topic, 1, Len(b1.prefix))

\* ------------------------------------------------------------------------
\* Clock
\* ------------------------------------------------------------------------
\* TestClock.__init__.  fired is the log of the callbacks invoked since the
\* event loop last began to advance the clock
NewClock == [time_ns |-> 0, timers |-> <<>>, fired |-> <<>>]

\* sorted(self._timers): a stable sort by fire_at
RECURSIVE sorted_timers(_)
sorted_timers(seq) ==
    IF seq = <<>> THEN <<>>
    ELSE LET t == seq[Len(seq)]
             sorted == sorted_timers(SubSeq(seq, 1, Len(seq) - 1))
         IN SelectSeq(sorted, LAMBDA e : e.fire_at <= t.fire_at)
            \o <<t>>
            \o SelectSeq(sorted, LAMBDA e : e.fire_at > t.fire_at)

\* The reschedule of the repeating timers among the fired ones (to_add)
RECURSIVE rescheduled(_)
rescheduled(due) ==
    IF due = <<>> THEN <<>>
    ELSE (IF Head(due).repeat /\ Head(due).interval_ns > 0
          THEN <<[Head(due) EXCEPT !.fire_at = @ + Head(due).interval_ns]>>
          ELSE <<>>)
         \o rescheduled(Tail(due))

\* The TimeEvent of each timer of a list, and the calls of their callbacks
RECURSIVE time_events(_)
time_events(due) ==
    IF due = <<>> THEN <<>>
    ELSE <<[ts_event |-> Head(due).fire_at, name |-> Head(due).name,
            callback |-> Head(due).callback]>>
         \o time_events(Tail(due))

callbacks_of(events) == SelectSeq(events, LAMBDA te : te.callback)

\* TestClock.advance_time: the clock after the call and the list returned;
\* every timer with fire_at <= ts_ns fires in the order of sorted(_timers),
\* its callback is called, and it is removed or rescheduled
advance_time(c, ts_ns) ==
    LET due == SelectSeq(sorted_timers(c.timers), LAMBDA t : t.fire_at <= ts_ns)
        events == time_events(due)
    IN [clock |-> [time_ns |-> ts_ns,
                   timers |-> SelectSeq(c.timers, LAMBDA t : t.fire_at > ts_ns)
                              \o rescheduled(due),
                   fired |-> c.fired \o callbacks_of(events)],
        events |-> events]

\* BacktestEngine.run, the head of the loop body: advance_time(ts), then the
\* loop over the returned events that calls te.callback(te)
run_time_events(c, ts_ns) ==
    LET a == advance_time([c EXCEPT !.fired = <<>>], ts_ns)
    IN [a.clock EXCEPT !.fired = @ \o callbacks_of(a.events)]

\* ------------------------------------------------------------------------
\* The run
\* ------------------------------------------------------------------------
\* The engine, venue and account after construction
InitEngine(configs) ==
    /\ config \in configs
    /\ orders = <<>>
    /\ resting = <<>>
    /\ stops = <<>>
    /\ trailing_stops = <<>>
    /\ contingency_groups = [g \in OrderListIds |-> <<>>]
    /\ book = EmptyBook
    /\ last_price = NoPrice
    /\ account = update_balance([total |-> 0, locked |-> 0, free |-> 0,
                                 commissions |-> 0],
                                config.starting_balance, 0)
    /\ positions = <<>>
    /\ emitted = <<>>
    /\ fill_sum = <<>>
    /\ raised = FALSE
    /\ market_events = 0
    /\ bus = NewBus
    /\ clock = NewClock
    /\ results = <<>>

\* A run in its event loop with one strategy subscribed; the data come as
\* the inputs of the steps
InitWith(configs) ==
    /\ InitEngine(configs)
    /\ data = <<>>
    /\ cursor = 1
    /\ pc = "running"
    /\ processed = <<>>
    /\ handlers = <<"ok">>
    /\ balance_curve = <<>>

\* The state s becomes the next state
Commit(s) ==
    /\ orders' = s.orders
    /\ resting' = s.resting
    /\ stops' = s.stops
    /\ trailing_stops' = s.trailing_stops
    /\ contingency_groups' = s.contingency_groups
    /\ book' = s.book
    /\ last_price' = s.last_price
    /\ account' = s.account
    /\ positions' = s.positions
    /\ emitted' = s.emitted
    /\ fill_sum' = s.fill_sum
    /\ raised' = s.raised
    /\ config' = config

\* Strategy.submit_order of a new order from the order factory
SubmitOrder(tpl, max_orders) ==
    /\ Len(orders) < max_orders
    /\ LET id == Len(orders) + 1
           o0 == NewOrder(tpl.strategy_id, tpl.side, tpl.order_type, tpl.quantity,
                          tpl.price, tpl.trigger_price, tpl.time_in_force,
                          tpl.post_only, tpl.reduce_only, tpl.order_list_id)
           o == IF "expire_time_ns" \in DOMAIN tpl
                THEN [o0 EXCEPT !.expire_time_ns = tpl.expire_time_ns] ELSE o0
           s == [State EXCEPT !.orders = Append(@, o),
                              !.fill_sum = Append(@, 0)]
       IN Commit(submit_order(s, id))
    /\ UNCHANGED market_events
    /\ UNCHANGED loop_vars
    /\ UNCHANGED aux_vars

\* Strategy.close_position on an open position of the cache
ClosePosition(pos_id, max_orders) ==
    /\ Len(orders) < max_orders
    /\ pos_id \in 1..Len(positions)
    /\ position_is_open(positions[pos_id])
    /\ Commit(close_position(State, pos_id))
    /\ UNCHANGED market_events
    /\ UNCHANGED loop_vars
    /\ UNCHANGED aux_vars

\* Strategy.cancel_order
CancelOrder(id) ==
    /\ Commit(cancel_order(State, id))
    /\ UNCHANGED market_events
    /\ UNCHANGED loop_vars
    /\ UNCHANGED aux_vars

\* Strategy.modify_order
ModifyOrder(id, m) ==
    /\ Commit(modify_order(State, id, m.quantity, m.price, m.trigger_price))
    /\ UNCHANGED market_events
    /\ UNCHANGED loop_vars
    /\ UNCHANGED aux_vars

\* BacktestEngine.run, a Bar datum; the k-th datum of the feed has the
\* ts_event k
ProcessBar(bar, max_events) ==
    /\ market_events < max_events
    /\ Commit(run_bar(StateAt(market_events + 1), bar))
    /\ market_events' = market_events + 1
    /\ UNCHANGED loop_vars
    /\ UNCHANGED aux_vars

\* BacktestEngine.run, a QuoteTick datum
ProcessQuoteTick(tick, max_events) ==
    /\ market_events < max_events
    /\ Commit(run_quote_tick(StateAt(market_events + 1), tick))
    /\ market_events' = market_events + 1
    /\ UNCHANGED loop_vars
    /\ UNCHANGED aux_vars

\* BacktestEngine.run, a TradeTick datum
ProcessTradeTick(tick, max_events) ==
    /\ market_events < max_events
    /\ Commit(run_trade_tick(StateAt(market_events + 1), tick))
    /\ market_events' = market_events + 1
    /\ UNCHANGED loop_vars
    /\ UNCHANGED aux_vars

\* BacktestEngine.run, an OrderBookDelta datum
ProcessBookDelta(delta, max_events) ==
    /\ market_events < max_events
    /\ Commit(run_book_delta(StateAt(market_events + 1), delta))
    /\ market_events' = market_events + 1
    /\ UNCHANGED loop_vars
    /\ UNCHANGED aux_vars

Init == InitWith(Configs)

Next ==
    \/ \E tpl \in OrderTemplates : SubmitOrder(tpl, MaxOrders)
    \/ \E id \in 1..Len(orders) : CancelOrder(id)
    \/ \E id \in 1..Len(orders), m \in Modifications : ModifyOrder(id, m)
    \/ \E bar \in Bars : ProcessBar(bar, MaxMarketEvents)
    \/ \E tick \in QuoteTicks : ProcessQuoteTick(tick, MaxMarketEvents)

Spec == Init /\ [][Next]_vars

InitBars == InitWith(BarConfigs)

NextBars ==
    \/ \E tpl \in BarOrderTemplates : SubmitOrder(tpl, MaxBarOrders)
    \/ \E bar \in ScenarioBars : ProcessBar(bar, MaxBars)

SpecBars == InitBars /\ [][NextBars]_vars

InitTif == InitWith(TifConfigs)

NextTif ==
    \/ \E tpl \in TifOrderTemplates : SubmitOrder(tpl, MaxTifOrders)
    \/ \E tick \in TifQuoteTicks : ProcessQuoteTick(tick, MaxTifEvents)

SpecTif == InitTif /\ [][NextTif]_vars

\* Inputs of SpecTwo: two strategies that trade the one instrument of a
\* NETTING venue with market orders, some of them reduce-only
TplOf(strategy_id, side, quantity, reduce_only) ==
    [side |-> side, order_type |-> "MARKET", quantity |-> quantity,
     price |-> NoPrice, trigger_price |-> NoPrice,
     time_in_force |-> "GTC", post_only |-> FALSE,
     strategy_id |-> strategy_id, reduce_only |-> reduce_only,
     order_list_id |-> NoId]

StrategyIds == {1, 2}

TwoConfigs == {Cfg("NETTING", 10000000, 0, 0)}

TwoOrderTemplates ==
    {TplOf(1, "BUY", 10, FALSE), TplOf(2, "BUY", 5, FALSE),
     TplOf(2, "SELL", 5, FALSE), TplOf(1, "SELL", 10, TRUE),
     TplOf(2, "SELL", 5, TRUE), TplOf(1, "BUY", 10, TRUE)}

InitTwo == InitWith(TwoConfigs)

NextTwo ==
    \/ \E tpl \in TwoOrderTemplates : SubmitOrder(tpl, MaxTwoOrders)
    \/ \E bar \in Bars : ProcessBar(bar, MaxTwoBars)

SpecTwo == InitTwo /\ [][NextTwo]_vars

\* list.sort(key=lambda d: d.ts_event) without its effect: the list as added
sort_by_ts_event_unsorted(seq) == seq

\* list.sort(key=lambda d: d.ts_event): a stable sort, an element goes behind
\* every element whose key is not greater
RECURSIVE sort_by_ts_event(_)
sort_by_ts_event(seq) ==
    IF seq = <<>> THEN <<>>
    ELSE LET d == seq[Len(seq)]
             sorted == sort_by_ts_event(SubSeq(seq, 1, Len(seq) - 1))
         IN SelectSeq(sorted, LAMBDA e : e.ts_event <= d.ts_event)
            \o <<d>>
            \o SelectSeq(sorted, LAMBDA e : e.ts_event > d.ts_event)

\* BacktestEngine.run: balance_curve before the event loop
first_point(d, total) ==
    IF d = <<>> THEN <<>> ELSE << <<d[1].ts_event, total>> >>

\* BacktestEngine.run: balance_curve.append((ts, total)) of the Bar branch
record_balance(curve, d, total) ==
    IF d.kind = "Bar" THEN Append(curve, <<d.ts_event, total>>) ELSE curve

\* BacktestEngine.run: the final balance is recorded at the last time of the curve
final_point(curve, total) ==
    IF curve = <<>> THEN curve ELSE Append(curve, <<curve[Len(curve)][1], total>>)

\* BacktestEngine.run: starting_balance, read before the loop; the first
\* point of the curve keeps it
starting_balance(curve, total) == IF curve = <<>> THEN total ELSE curve[1][2]

\* The readings of the wall clock a run can end with
RunTimes == {1, 2}

\* BacktestEngine._build_result; the statistics derived from the curve and
\* the positions by compute_all_stats are left out
build_result(s, start_balance, ending_balance, curve, run_time) ==
    [start_time_ns |-> IF curve = <<>> THEN 0 ELSE curve[1][1],
     end_time_ns |-> IF curve = <<>> THEN 0 ELSE curve[Len(curve)][1],
     run_time_seconds |-> run_time,
     starting_balance |-> start_balance,
     ending_balance |-> ending_balance,
     total_return |-> ending_balance - start_balance,
     total_orders |-> Len(SelectSeq(s.orders, LAMBDA o : o.status # "INITIALIZED")),
     total_positions |-> Len(s.positions),
     total_fills |-> Len(SelectSeq(s.orders, is_filled)),
     total_commissions |-> s.account.commissions,
     balance_curve |-> curve]

\* BacktestEngine.add_data of one datum; n is its place in the order of addition
AddData(d) ==
    /\ pc = "setup"
    /\ Len(data) < MaxData
    /\ data' = Append(data, [ts_event |-> d.ts_event, kind |-> d.kind,
                             datum |-> d.datum, n |-> Len(data) + 1])
    /\ UNCHANGED <<orders, resting, stops, trailing_stops, contingency_groups,
                   book, last_price, account, positions, emitted, fill_sum,
                   raised, config, market_events, cursor, pc, processed,
                   handlers>>
    /\ UNCHANGED aux_vars

\* BacktestEngine.run up to the event loop: the data are sorted by ts_event
RunStart ==
    /\ pc = "setup"
    /\ data' = sort_by_ts_event(data)
    /\ pc' = "running"
    /\ balance_curve' = first_point(data', account.total)
    /\ UNCHANGED <<orders, resting, stops, trailing_stops, contingency_groups,
                   book, last_price, account, positions, emitted, fill_sum,
                   raised, config, market_events, cursor, processed, handlers>>
    /\ UNCHANGED <<bus, clock, results>>

\* The dispatch of one datum by its type
run_datum(s, d) ==
    CASE d.kind = "Bar" -> run_bar(s, d.datum)
      [] d.kind = "QuoteTick" -> run_quote_tick(s, d.datum)
      [] d.kind = "TradeTick" -> run_trade_tick(s, d.datum)
      [] d.kind = "OrderBookDelta" -> run_book_delta(s, d.datum)

\* BacktestEngine.run, one iteration of the event loop; an exception that
\* leaves a dispatch leaves the loop and run
ProcessNext ==
    /\ pc = "running"
    /\ cursor <= Len(data)
    /\ Commit(run_datum(StateAt(data[cursor].ts_event), data[cursor]))
    /\ market_events' = market_events + 1
    /\ processed' = Append(processed, data[cursor])
    /\ cursor' = cursor + 1
    /\ pc' = IF raised' THEN "aborted" ELSE "running"
    /\ clock' = run_time_events(clock, data[cursor].ts_event)
    /\ balance_curve' = record_balance(balance_curve, data[cursor], account'.total)
    /\ UNCHANGED <<data, handlers, bus, results>>

\* BacktestEngine.run after the event loop: the final balance is recorded
\* and the result is built; the run time is the difference of two readings
\* of time.perf_counter()
RunStop ==
    /\ pc = "running"
    /\ cursor > Len(data)
    /\ pc' = "stopped"
    /\ balance_curve' = final_point(balance_curve, account.total)
    /\ \E run_time \in RunTimes :
           results' = Append(results,
                             build_result(State, starting_balance(balance_curve,
                                                                  account.total),
                                          account.total, balance_curve', run_time))
    /\ UNCHANGED <<orders, resting, stops, trailing_stops, contingency_groups,
                   book, last_price, account, positions, emitted, fill_sum,
                   raised, config, market_events, data, cursor, processed,
                   handlers>>
    /\ UNCHANGED <<bus, clock>>

\* Inputs of SpecLoop: data of two timestamps, strategies whose handler of
\* the datum returns or raises
Datum(ts_event, kind, datum) ==
    [ts_event |-> ts_event, kind |-> kind, datum |-> datum]

LoopData ==
    {Datum(1, "Bar", BarS1), Datum(1, "QuoteTick", Quote(9900, 10000, 5, 5)),
     Datum(2, "Bar", BarS2), Datum(2, "QuoteTick", Quote(9900, 10000, 4, 4))}

HandlerLists ==
    {<<"ok">>, <<"ok", "ok">>, <<"raises", "ok">>, <<"ok", "raises">>}

LoopConfigs == {Cfg("NETTING", 100000, 10, 10)}

InitLoop ==
    /\ InitEngine(LoopConfigs)
    /\ data = <<>>
    /\ cursor = 1
    /\ pc = "setup"
    /\ processed = <<>>
    /\ handlers \in HandlerLists
    /\ balance_curve = <<>>

NextLoop ==
    \/ \E d \in LoopData : AddData(d)
    \/ RunStart
    \/ ProcessNext
    \/ RunStop

SpecLoop == InitLoop /\ [][NextLoop]_vars

\* ------------------------------------------------------------------------
\* Trailing stops
\* ------------------------------------------------------------------------
\* OrderFactory.trailing_stop_market and Strategy.submit_order of the order
SubmitTrailingStop(tpl, max_orders) ==
    /\ Len(orders) < max_orders
    /\ LET id == Len(orders) + 1
           o == NewTrailingStop(
                    NewOrder(1, tpl.side, "TRAILING_STOP_MARKET", tpl.quantity,
                             NoPrice, tpl.trigger_price, tpl.time_in_force,
                             FALSE, FALSE, NoId),
                    tpl.trailing_offset, tpl.trailing_offset_type, 0)
           s == [State EXCEPT !.orders = Append(@, o),
                              !.fill_sum = Append(@, 0)]
       IN Commit(submit_order(s, id))
    /\ UNCHANGED market_events
    /\ UNCHANGED loop_vars
    /\ UNCHANGED aux_vars

\* The arguments of OrderFactory.trailing_stop_market
TrailTpl(side, trailing_offset, trailing_offset_type, trigger_price, time_in_force) ==
    [side |-> side, quantity |-> 10, trailing_offset |-> trailing_offset,
     trailing_offset_type |-> trailing_offset_type,
     trigger_price |-> trigger_price, time_in_force |-> time_in_force]

\* Inputs of SpecTrail: trailing stops of both sides, with an offset in
\* price and in basis points, with and without an activation price, GTC and
\* DAY; bars and quotes whose closes and mids rise and fall
TrailConfigs == {Cfg("NETTING", 10000000, 0, 0)}

TrailTemplates ==
    {TrailTpl("SELL", 500, "PRICE", NoPrice, "GTC"),
     TrailTpl("BUY", 500, "PRICE", NoPrice, "GTC"),
     TrailTpl("SELL", 333, "BASIS_POINTS", 10600, "GTC"),
     TrailTpl("BUY", 333, "BASIS_POINTS", NoPrice, "GTC"),
     TrailTpl("SELL", 500, "PRICE", NoPrice, "DAY")}

TrailBars ==
    {Bar(10000, 10100, 9900, 10000), Bar(10500, 11100, 10400, 11000),
     Bar(10700, 10800, 10300, 10400)}

TrailQuoteTicks ==
    {Quote(10690, 10710, 10, 10), Quote(10890, 10910, 10, 10),
     Quote(9790, 9810, 10, 10)}

InitTrail == InitWith(TrailConfigs)

NextTrail ==
    \/ \E tpl \in TrailTemplates : SubmitTrailingStop(tpl, MaxTrailOrders)
    \/ \E bar \in TrailBars : ProcessBar(bar, MaxTrailEvents)
    \/ \E tick \in TrailQuoteTicks : ProcessQuoteTick(tick, MaxTrailEvents)

SpecTrail == InitTrail /\ [][NextTrail]_vars

\* Scenario S6: the closes of the bars the loop dispatches; the first bar
\* opens at 100.00 and gives the strategy its long position
S6Closes == <<10000, 10000, 10500, 11000, 10700, 10600, 10400>>

S6Data ==
    [k \in 1..Len(S6Closes) |->
        [ts_event |-> k, kind |-> "Bar",
         datum |-> Bar(S6Closes[k], S6Closes[k] + 100, S6Closes[k] - 100,
                       S6Closes[k]),
         n |-> k]]

S6Configs == {Cfg("NETTING", 10000000, 0, 0)}

S6OrderTemplates == {TplTif("BUY", "LIMIT", 10, 10000, "GTC")}

S6TrailTemplates ==
    {TrailTpl("SELL", 500, "PRICE", NoPrice, "GTC"),
     TrailTpl("SELL", 300, "PRICE", NoPrice, "GTC"),
     TrailTpl("BUY", 500, "PRICE", NoPrice, "GTC")}

\* The run of scenario S6 in its event loop, the data added and sorted
InitS6 ==
    /\ InitEngine(S6Configs)
    /\ data = S6Data
    /\ cursor = 1
    /\ pc = "running"
    /\ processed = <<>>
    /\ handlers = <<"ok">>
    /\ balance_curve = first_point(data, account.total)

NextS6 ==
    \/ \E tpl \in S6OrderTemplates : pc = "running" /\ SubmitOrder(tpl, MaxS6Orders)
    \/ \E tpl \in S6TrailTemplates :
           pc = "running" /\ SubmitTrailingStop(tpl, MaxS6Orders)
    \/ ProcessNext
    \/ RunStop

SpecS6 == InitS6 /\ [][NextS6]_vars

\* ------------------------------------------------------------------------
\* Good-till-date orders
\* ------------------------------------------------------------------------
\* The arguments of OrderFactory.limit with an expire time
TplGtd(side, price, time_in_force, expire_time_ns) ==
    [side |-> side, order_type |-> "LIMIT", quantity |-> 10,
     price |-> price, trigger_price |-> NoPrice,
     time_in_force |-> time_in_force, post_only |-> FALSE,
     strategy_id |-> 1, reduce_only |-> FALSE,
     order_list_id |-> NoId, expire_time_ns |-> expire_time_ns]

\* Inputs of SpecGtd: bars at the timestamps 1..4, the last two visit the
\* limits; GTD limit orders that expire at the timestamps 2 and 3
GtdData ==
    <<[ts_event |-> 1, kind |-> "Bar", datum |-> Bar(10000, 10100, 9900, 10000), n |-> 1],
      [ts_event |-> 2, kind |-> "Bar", datum |-> Bar(10000, 10100, 9900, 10000), n |-> 2],
      [ts_event |-> 3, kind |-> "Bar", datum |-> Bar(10000, 10200, 9900, 10000), n |-> 3],
      [ts_event |-> 4, kind |-> "Bar", datum |-> Bar(9500, 9600, 8900, 9000), n |-> 4]>>

GtdConfigs == {Cfg("NETTING", 10000000, 0, 0)}

GtdOrderTemplates ==
    {TplGtd("BUY", 9000, "GTD", 2), TplGtd("BUY", 9000, "GTD", 3),
     TplGtd("SELL", 10150, "GTD", 2), TplGtd("BUY", 9000, "GTC", 0)}

InitGtd ==
    /\ InitEngine(GtdConfigs)
    /\ data = GtdData
    /\ cursor = 1
    /\ pc = "running"
    /\ processed = <<>>
    /\ handlers = <<"ok">>
    /\ balance_curve = first_point(data, account.total)

NextGtd ==
    \/ \E tpl \in GtdOrderTemplates : pc = "running" /\ SubmitOrder(tpl, MaxGtdOrders)
    \/ ProcessNext
    \/ RunStop

SpecGtd == InitGtd /\ [][NextGtd]_vars

\* ------------------------------------------------------------------------
\* Limit orders
\* ------------------------------------------------------------------------
\* The arguments of OrderFactory.limit with post_only
TplLimit(side, price, post_only) ==
    [TplTif(side, "LIMIT", 10, price, "GTC") EXCEPT !.post_only = post_only]

\* Inputs of SpecLimit: limit orders of both sides, plain and post-only;
\* quotes and a bar that reach and pass the limits
LimitConfigs == {Cfg("NETTING", 10000000, 10, 10)}

LimitOrderTemplates ==
    {TplLimit("BUY", 10000, FALSE), TplLimit("SELL", 10100, FALSE),
     TplLimit("BUY", 10100, TRUE), TplLimit("SELL", 10100, TRUE)}

LimitBars == {Bar(10050, 10200, 9700, 9900)}

LimitQuoteTicks ==
    {Quote(9900, 10000, 4, 4), Quote(9800, 9900, 10, 10),
     Quote(10200, 10300, 10, 10)}

InitLimit == InitWith(LimitConfigs)

NextLimit ==
    \/ \E tpl \in LimitOrderTemplates : SubmitOrder(tpl, MaxLimitOrders)
    \/ \E bar \in LimitBars : ProcessBar(bar, MaxLimitEvents)
    \/ \E tick \in LimitQuoteTicks : ProcessQuoteTick(tick, MaxLimitEvents)

SpecLimit == InitLimit /\ [][NextLimit]_vars

\* ------------------------------------------------------------------------
\* Timers
\* ------------------------------------------------------------------------
\* TestClock.set_time_alert, called by the strategy with a callback
SetTimeAlert(name, alert_time_ns) ==
    /\ pc = "running"
    /\ Len(clock.timers) < MaxTimers
    /\ clock' = [clock EXCEPT !.timers = Append(@,
                     [fire_at |-> alert_time_ns, name |-> name, callback |-> TRUE,
                      interval_ns |-> 0, repeat |-> FALSE])]
    /\ UNCHANGED engine_vars
    /\ UNCHANGED loop_vars
    /\ UNCHANGED bus
    /\ UNCHANGED run_vars

\* TestClock.set_timer, called by the strategy with a callback and no start
SetTimer(name, interval_ns) ==
    /\ pc = "running"
    /\ Len(clock.timers) < MaxTimers
    /\ clock' = [clock EXCEPT !.timers = Append(@,
                     [fire_at |-> clock.time_ns + interval_ns, name |-> name,
                      callback |-> TRUE, interval_ns |-> interval_ns,
                      repeat |-> TRUE])]
    /\ UNCHANGED engine_vars
    /\ UNCHANGED loop_vars
    /\ UNCHANGED bus
    /\ UNCHANGED run_vars

\* Inputs of SpecClock: quotes at the timestamps 2, 4 and 5; alarms at and
\* between them, a repeating timer
ClockData ==
    <<[ts_event |-> 2, kind |-> "QuoteTick", datum |-> Quote(9900, 10000, 5, 5), n |-> 1],
      [ts_event |-> 4, kind |-> "QuoteTick", datum |-> Quote(9900, 10000, 5, 5), n |-> 2],
      [ts_event |-> 5, kind |-> "QuoteTick", datum |-> Quote(9900, 10000, 5, 5), n |-> 3]>>

TimerNames == {"a", "b"}

AlertTimes == {1, 2, 3, 5}

TimerIntervals == {1, 2}

InitClock ==
    /\ InitEngine(LoopConfigs)
    /\ data = ClockData
    /\ cursor = 1
    /\ pc = "running"
    /\ processed = <<>>
    /\ handlers = <<"ok">>
    /\ balance_curve = first_point(data, account.total)

NextClock ==
    \/ \E name \in TimerNames, t \in AlertTimes : SetTimeAlert(name, t)
    \/ \E name \in TimerNames, i \in TimerIntervals : SetTimer(name, i)
    \/ ProcessNext
    \/ RunStop

SpecClock == InitClock /\ [][NextClock]_vars

\* ------------------------------------------------------------------------
\* Subscriptions
\* ------------------------------------------------------------------------
\* MessageBus.subscribe called by a component
Subscribe(topic, handler) ==
    /\ bus.next_id <= MaxSubscriptions
    /\ bus' = subscribe(bus, topic, handler)
    /\ UNCHANGED engine_vars
    /\ UNCHANGED loop_vars
    /\ UNCHANGED clock
    /\ UNCHANGED run_vars

\* MessageBus.unsubscribe called by a component with a handle it holds
Unsubscribe(subscription) ==
    /\ bus' = unsubscribe(bus, subscription)
    /\ bus' # bus
    /\ UNCHANGED engine_vars
    /\ UNCHANGED loop_vars
    /\ UNCHANGED clock
    /\ UNCHANGED run_vars

\* MessageBus.publish called by a component
Publish(topic) ==
    /\ bus.sent_count < MaxPublished
    /\ bus' = bus_publish(bus, topic)
    /\ UNCHANGED engine_vars
    /\ UNCHANGED loop_vars
    /\ UNCHANGED clock
    /\ UNCHANGED run_vars

\* The subscription handles given out so far
Handles(b) ==
    {[sub_id |-> x.sub_id, topic |-> x.topic] :
        x \in UNION ({Range(b.exact[k].subs) : k \in 1..Len(b.exact)}
                     \cup {Range(b.prefix[k].subs) : k \in 1..Len(b.prefix)})}

\* Inputs of SpecBus: the topic "a.b" and the wildcards "a.*" and "a.b.*";
\* published topics "a.b" and "a.bc"; handlers that return, that
\* subscribe a wildcard, and that unsubscribe a subscription made before
TopicAB == <<"a", ".", "b">>

WildA == <<"a", ".", "*">>

WildAB == <<"a", ".", "b", ".", "*">>

SubscribeTopics == {TopicAB, WildA, WildAB}

PublishTopics == {TopicAB, <<"a", ".", "b", "c">>}

LogHandler == [kind |-> "log", topic |-> <<>>, sub_id |-> 0]

BusHandlers(b) ==
    {LogHandler}
    \cup {[kind |-> "subscribe", topic |-> t, sub_id |-> 0] : t \in {WildA, WildAB}}
    \cup {[kind |-> "unsubscribe", topic |-> h.topic, sub_id |-> h.sub_id] :
             h \in Handles(b)}

InitBus == InitWith(LoopConfigs)

NextBus ==
    \/ \E t \in SubscribeTopics, h \in BusHandlers(bus) : Subscribe(t, h)
    \/ \E h \in Handles(bus) : Unsubscribe(h)
    \/ \E t \in PublishTopics : Publish(t)

SpecBus == InitBus /\ [][NextBus]_vars

\* ------------------------------------------------------------------------
\* Positions taken through zero
\* ------------------------------------------------------------------------
\* Inputs of SpecFlip: market orders of 5, 10 and 15, some of them
\* reduce-only, against deep quotes at two price levels on a NETTING venue
TplQty(side, quantity) ==
    [side |-> side, order_type |-> "MARKET", quantity |-> quantity,
     price |-> NoPrice, trigger_price |-> NoPrice,
     time_in_force |-> "GTC", post_only |-> FALSE,
     strategy_id |-> 1, reduce_only |-> FALSE,
     order_list_id |-> NoId]

FlipConfigs == {Cfg("NETTING", 10000000, 10, 10)}

FlipOrderTemplates ==
    {TplQty("BUY", 10), TplQty("SELL", 5), TplQty("SELL", 10),
     TplQty("BUY", 15),
     [TplQty("SELL", 15) EXCEPT !.reduce_only = TRUE],
     [TplQty("SELL", 5) EXCEPT !.reduce_only = TRUE]}

FlipQuoteTicks == {Quote(9990, 10010, 100, 100), Quote(10990, 11010, 100, 100)}

InitFlip == InitWith(FlipConfigs)

NextFlip ==
    \/ \E tpl \in FlipOrderTemplates : SubmitOrder(tpl, MaxFlipOrders)
    \/ \E tick \in FlipQuoteTicks : ProcessQuoteTick(tick, MaxFlipEvents)

SpecFlip == InitFlip /\ [][NextFlip]_vars

\* ------------------------------------------------------------------------
\* Positions closed by the strategy
\* ------------------------------------------------------------------------
\* Inputs of SpecClose: market orders of 10 and close_position against deep
\* quotes, on a HEDGING venue (the default of add_venue) and a NETTING venue
CloseConfigs == {Cfg("HEDGING", 10000000, 10, 10), Cfg("NETTING", 10000000, 10, 10)}

CloseOrderTemplates == {TplQty("BUY", 10), TplQty("SELL", 10)}

ClosePositionIds == 1..MaxCloseOrders

InitClose == InitWith(CloseConfigs)

NextClose ==
    \/ \E tpl \in CloseOrderTemplates : SubmitOrder(tpl, MaxCloseOrders)
    \/ \E tick \in FlipQuoteTicks : ProcessQuoteTick(tick, MaxCloseEvents)
    \/ \E pos_id \in ClosePositionIds : ClosePosition(pos_id, MaxCloseOrders)

SpecClose == InitClose /\ [][NextClose]_vars

\* ------------------------------------------------------------------------
\* Runs of engines built from the same inputs
\* ------------------------------------------------------------------------
\* The engine state after construction with the configuration cfg
NewEngine(cfg) ==
    [orders |-> <<>>, resting |-> <<>>, stops |-> <<>>, trailing_stops |-> <<>>,
     contingency_groups |-> [g \in OrderListIds |-> <<>>], book |-> EmptyBook,
     last_price |-> NoPrice,
     account |-> update_balance([total |-> 0, locked |-> 0, free |-> 0,
                                 commissions |-> 0],
                                cfg.starting_balance, 0),
     positions |-> <<>>, emitted |-> <<>>, fill_sum |-> <<>>, raised |-> FALSE,
     ts |-> 0]

\* A further BacktestEngine is constructed with the venue, the instrument,
\* the data and the strategy of the one that has run, and its run reaches
\* the event loop
NewRun ==
    /\ pc = "stopped"
    /\ Len(results) < MaxRuns
    /\ Commit(NewEngine(config))
    /\ market_events' = 0
    /\ cursor' = 1
    /\ pc' = "running"
    /\ processed' = <<>>
    /\ bus' = NewBus
    /\ clock' = NewClock
    /\ balance_curve' = first_point(data, account'.total)
    /\ UNCHANGED <<data, handlers, results>>

\* Inputs of SpecRuns: two bars and a quote between them, strategies that
\* buy on every datum or do nothing
RunsData ==
    <<[ts_event |-> 1, kind |-> "Bar", datum |-> Bar(10000, 10100, 9900, 10000), n |-> 1],
      [ts_event |-> 2, kind |-> "QuoteTick", datum |-> Quote(10400, 10500, 15, 15), n |-> 2],
      [ts_event |-> 3, kind |-> "Bar", datum |-> Bar(10500, 10600, 10400, 10500), n |-> 3]>>

RunsDataSets == {SubSeq(RunsData, i, j) : i \in 1..2, j \in 2..3}

RunsConfigs == {Cfg("NETTING", 10000000, 10, 10), Cfg("HEDGING", 10000000, 0, 0)}

RunsHandlerLists == {<<"buys">>, <<"ok">>, <<"buys", "buys">>}

InitRuns ==
    /\ InitEngine(RunsConfigs)
    /\ data \in RunsDataSets
    /\ cursor = 1
    /\ pc = "running"
    /\ processed = <<>>
    /\ handlers \in RunsHandlerLists
    /\ balance_curve = first_point(data, account.total)

NextRuns ==
    \/ ProcessNext
    \/ RunStop
    \/ NewRun

SpecRuns == InitRuns /\ [][NextRuns]_vars

\* ------------------------------------------------------------------------
\* Order book deltas
\* ------------------------------------------------------------------------
Delta(action, side, price, size) ==
    [action |-> action, side |-> side, price |-> price, size |-> size]

\* Inputs of SpecBook: deltas of the four actions on three price levels of
\* each side, a quote and a bar, and a limit order that rests in the book
BookDeltas ==
    {Delta("ADD", "BUY", 9900, 5), Delta("ADD", "BUY", 9800, 5),
     Delta("ADD", "SELL", 10000, 5), Delta("ADD", "SELL", 10100, 5),
     Delta("ADD", "BUY", 10000, 5), Delta("UPDATE", "SELL", 9900, 3),
     Delta("UPDATE", "BUY", 9900, 0), Delta("DELETE", "SELL", 10000, 0),
     Delta("CLEAR", "BUY", 0, 0)}

BookQuoteTicks == {Quote(9900, 10000, 5, 5)}

BookBars == {Bar(10000, 10100, 9900, 10000)}

BookOrderTemplates == {TplTif("BUY", "LIMIT", 10, 9900, "GTC")}

InitBook == InitWith(LimitConfigs)

NextBook ==
    \/ \E delta \in BookDeltas : ProcessBookDelta(delta, MaxBookEvents)
    \/ \E tick \in BookQuoteTicks : ProcessQuoteTick(tick, MaxBookEvents)
    \/ \E bar \in BookBars : ProcessBar(bar, MaxBookEvents)
    \/ \E tpl \in BookOrderTemplates : SubmitOrder(tpl, MaxBookOrders)

SpecBook == InitBook /\ [][NextBook]_vars

\* ------------------------------------------------------------------------
\* Tick-driven feeds
\* ------------------------------------------------------------------------
Trade(price, size) == [price |-> price, size |-> size]

\* Inputs of SpecTicks: stop-market orders below and above the market, a
\* limit order below it, quotes and trades at, below and above 100.00
TickConfigs == {Cfg("NETTING", 10000000, 0, 0)}

TickOrderTemplates ==
    {Tpl("SELL", "STOP_MARKET", 10, NoPrice, 9500, NoId),
     Tpl("BUY", "STOP_MARKET", 10, NoPrice, 10500, NoId),
     Tpl("BUY", "LIMIT", 10, 9700, NoPrice, NoId)}

TickQuoteTicks == {Quote(9990, 10010, 10, 10), Quote(9390, 9410, 10, 10)}

TradeTicks == {Trade(9400, 10), Trade(10600, 10)}

InitTicks == InitWith(TickConfigs)

NextTicks ==
    \/ \E tpl \in TickOrderTemplates : SubmitOrder(tpl, MaxTickOrders)
    \/ \E tick \in TickQuoteTicks : ProcessQuoteTick(tick, MaxTickEvents)
    \/ \E tick \in TradeTicks : ProcessTradeTick(tick, MaxTickEvents)

SpecTicks == InitTicks /\ [][NextTicks]_vars

\* ------------------------------------------------------------------------
\* Reset of an engine and a further run
\* ------------------------------------------------------------------------
\* The topics of the order and the position events of the strategy
OrderEventsTopic == <<"events", ".", "order", ".", "S">>

PositionEventsTopic == <<"events", ".", "position", ".", "S">>

PositionEventTypes == {"PositionOpened", "PositionChanged", "PositionClosed"}

DataEventTypes == {"Bar", "QuoteTick", "TradeTick", "OrderBookDelta"}

\* Strategy.register: the strategy subscribes to its order events and to
\* its position events
register(b) ==
    subscribe(subscribe(b, OrderEventsTopic,
                        [kind |-> "log", topic |-> <<>>, sub_id |-> 0]),
              PositionEventsTopic,
              [kind |-> "log", topic |-> <<>>, sub_id |-> 0])

\* MessageBus.reset
bus_reset(b) == [b EXCEPT !.exact = <<>>, !.prefix = <<>>, !.sent_count = 0]

\* Cache.reset and OrderMatchingEngine.reset, as BacktestEngine.reset
\* calls them: the orders, the positions, the queues of the matching engine
\* and its book are cleared; the account is not touched
engine_reset(s) ==
    [s EXCEPT !.orders = <<>>, !.positions = <<>>, !.fill_sum = <<>>,
              !.resting = <<>>, !.stops = <<>>, !.trailing_stops = <<>>,
              !.contingency_groups = [g \in OrderListIds |-> <<>>],
              !.book = EmptyBook, !.last_price = NoPrice, !.emitted = <<>>]

\* The events of a log that reach the strategy: the execution engine
\* publishes an order event on OrderEventsTopic and a position event on
\* PositionEventsTopic, the bus calls the subscribers of the topic
received(b, log) ==
    SelectSeq(log, LAMBDA e :
        /\ e.type \notin DataEventTypes
        /\ get_subs(b.exact, IF e.type \in PositionEventTypes
                             THEN PositionEventsTopic
                             ELSE OrderEventsTopic) # <<>>)

\* BacktestEngine.reset on the engine that has run, then the same data are
\* added again and run() reaches the event loop
ResetRun ==
    /\ pc = "stopped"
    /\ Len(results) < MaxRuns
    /\ Commit(engine_reset(State))
    /\ bus' = bus_reset(bus)
    /\ market_events' = 0
    /\ cursor' = 1
    /\ pc' = "running"
    /\ processed' = <<>>
    /\ balance_curve' = first_point(data, account'.total)
    /\ UNCHANGED <<data, handlers, clock, results>>

InitReset ==
    /\ config \in RunsConfigs
    /\ orders = <<>>
    /\ resting = <<>>
    /\ stops = <<>>
    /\ trailing_stops = <<>>
    /\ contingency_groups = [g \in OrderListIds |-> <<>>]
    /\ book = EmptyBook
    /\ last_price = NoPrice
    /\ account = update_balance([total |-> 0, locked |-> 0, free |-> 0,
                                 commissions |-> 0],
                                config.starting_balance, 0)
    /\ positions = <<>>
    /\ emitted = <<>>
    /\ fill_sum = <<>>
    /\ raised = FALSE
    /\ market_events = 0
    /\ bus = register(NewBus)
    /\ clock = NewClock
    /\ results = <<>>
    /\ data \in RunsDataSets
    /\ cursor = 1
    /\ pc = "running"
    /\ processed = <<>>
    /\ handlers \in RunsHandlerLists
    /\ balance_curve = first_point(data, account.total)

NextReset ==
    \/ ProcessNext
    \/ RunStop
    \/ ResetRun

SpecReset == InitReset /\ [][NextReset]_vars

\* ------------------------------------------------------------------------
\* Type invariant
\* ------------------------------------------------------------------------
TypeOK ==
    /\ \A i \in 1..Len(orders) : orders[i].status \in OrderStatus
    /\ Range(resting) \subseteq 1..Len(orders)
    /\ Range(stops) \subseteq 1..Len(orders)
    /\ Len(fill_sum) = Len(orders)

\* ------------------------------------------------------------------------
\* Claims
\* ------------------------------------------------------------------------
OrderEventTypes ==
    {"Submitted", "Accepted", "Rejected", "Canceled", "Triggered", "Expired",
     "Filled"}

\* The events of the log that belong to order id and have the given type
EventsOf(log, type, id) ==
    SelectSeq(log, LAMBDA e : e.type = type /\ e.id = id)

\* Two distinct orders of one OCO list
Siblings(a, b) ==
    /\ a # b
    /\ orders[a].contingency_type = "OCO"
    /\ orders[b].contingency_type = "OCO"
    /\ orders[a].order_list_id # NoId
    /\ orders[a].order_list_id = orders[b].order_list_id

\* The step is a market event that processed the given bar
BarProcessed(bar) ==
    /\ market_events' = market_events + 1
    /\ book' = update_from_bar(bar)
    /\ last_price' = bar.close

\* One open long position of 10 units opened at 100.00, no commission charged
LongTenAtHundred ==
    /\ config.oms_type = "NETTING"
    /\ config.maker_fee = 0
    /\ config.taker_fee = 0
    /\ Len(positions) = 1
    /\ positions[1].signed_qty = 10
    /\ avg_px_open(positions[1]) = 10000 * PnlScale
    /\ positions[1].realized_pnl = 0

\* C1: every order satisfies filled_qty + leaves_qty = quantity at every
\* moment, after any sequence of submissions, market events, cancels and
\* modifies.
C1_FilledPlusLeavesIsQuantity ==
    \A i \in 1..Len(orders) :
        orders[i].filled_qty + orders[i].leaves_qty = orders[i].quantity

\* C2: each OrderFilled event raises the order's filled_qty by exactly its
\* last_qty, so filled_qty is the sum of the emitted fills; the order is
\* PartiallyFilled while that sum is below quantity and Filled exactly when
\* the sum equals quantity.
C2_FilledQtyIsSumOfFills ==
    \A i \in 1..Len(orders) :
        /\ orders[i].filled_qty = fill_sum[i]
        /\ (orders[i].status = "PARTIALLY_FILLED"
                => (0 < fill_sum[i] /\ fill_sum[i] < orders[i].quantity))
        /\ (orders[i].status = "FILLED" <=> fill_sum[i] = orders[i].quantity)

\* The statuses order i is seen in while a handler runs: the status before,
\* the status at each of its events, the status after
StatusPath(i) ==
    LET before == IF i <= Len(orders) THEN orders[i].status ELSE "INITIALIZED"
        evs == SelectSeq(emitted',
                   LAMBDA e : e.type \in OrderEventTypes /\ e.id = i)
    IN <<before>> \o [k \in 1..Len(evs) |-> evs[k].status]
       \o <<orders'[i].status>>

C3_Step ==
    \A i \in 1..Len(orders') :
        LET path == StatusPath(i)
        IN /\ \A k \in 1..(Len(path) - 1) :
                  \/ path[k + 1] = path[k]
                  \/ path[k + 1] \in ORDER_STATUS_TRANSITIONS(path[k])
           /\ (path[1] \in {"DENIED", "REJECTED", "CANCELED", "EXPIRED", "FILLED"}
                  => orders'[i].status = path[1])
           /\ (raised' => orders'[i].status = path[1])

\* C3: an order's status changes only along the transition table; a request
\* for any other transition fails and leaves the status as it was; the
\* terminal statuses Denied, Rejected, Canceled, Expired and Filled never
\* change.
C3_StatusFollowsTable == [][C3_Step]_vars

\* A cancel or modify was refused on a run that holds a Filled order
C3_Witness ==
    /\ raised
    /\ emitted = <<>>
    /\ \E i \in 1..Len(orders) : orders[i].status = "FILLED"

\* Cash the fills of the log move: -(qty * price) for a BUY, +(qty * price)
\* for a SELL
RECURSIVE CashOfFills(_, _)
CashOfFills(log, ords) ==
    IF log = <<>> THEN 0
    ELSE LET e == Head(log)
             cash == IF e.type # "Filled" THEN 0
                     ELSE IF ords[e.id].side = "BUY" THEN -(e.qty * e.px)
                     ELSE e.qty * e.px
         IN cash + CashOfFills(Tail(log), ords)

C4_Step ==
    /\ account'.free + account'.locked = account'.total
    /\ account'.total - account.total =
           CashOfFills(emitted', orders')
           - (account'.commissions - account.commissions)

\* C4: on the cash account free + locked = total after every operation, and
\* the fills of an operation change total by exactly -(qty * price) -
\* commission for a BUY and +(qty * price) - commission for a SELL.
C4_AccountFollowsFills == [][C4_Step]_vars

\* The trigger predicate of the order's own type
OwnTriggerPredicate(o, price) ==
    IF o.order_type \in {"STOP_MARKET", "STOP_LIMIT"}
    THEN is_stop_triggered(o, price)
    ELSE is_mit_triggered(o, price)

C5_Step ==
    \A i \in Range(stops) :
        i \notin Range(stops') =>
            \/ EventsOf(emitted', "Canceled", i) # <<>>
            \/ \E k \in 1..Len(emitted') :
                   /\ emitted'[k].type = "Triggered"
                   /\ emitted'[k].id = i
                   /\ OwnTriggerPredicate(orders[i], emitted'[k].last_price)

\* C5: while a bar is processed a parked StopMarket / StopLimit order
\* triggers at a price visit only if the stop predicate holds there (BUY:
\* price >= trigger, SELL: price <= trigger), a parked MIT / LIT order only
\* if the MIT predicate holds there (BUY: price <= trigger, SELL: price >=
\* trigger); an order whose predicate holds at no visit stays parked.
C5_TriggerOnlyOnOwnPredicate == [][C5_Step]_vars

\* Scenario S2 before its bar: the long position and one parked stop-market
\* SELL of 10 with trigger 96.00
S2_Before ==
    /\ LongTenAtHundred
    /\ resting = <<>>
    /\ Len(stops) = 1
    /\ LET o == orders[stops[1]]
       IN /\ o.side = "SELL"
          /\ o.order_type = "STOP_MARKET"
          /\ o.quantity = 10
          /\ o.trigger_price = 9600
          /\ o.status = "ACCEPTED"

C6_Step ==
    (S2_Before /\ BarProcessed(BarS2)) =>
        LET i == stops[1]
            trig == EventsOf(emitted', "Triggered", i)
            fills == EventsOf(emitted', "Filled", i)
        IN /\ Len(trig) = 1
           /\ trig[1].last_price = BarS2.low
           /\ Len(fills) = 1
           /\ fills[1].qty = 10
           /\ fills[1].px = 9400
           /\ positions'[1].signed_qty = 0
           /\ positions'[1].realized_pnl = -6000 * PnlScale

\* C6: scenario S2 (NETTING, no commission): long 10 at 100.00 and a parked
\* stop-market SELL 10 with trigger 96.00; on the bar O=102 H=106 L=94 C=98
\* the stop is not triggered at the open or the high, fires at the low and
\* fills at 94.00, and the position closes with realized_pnl = -60.00.
C6_ScenarioS2 == [][C6_Step]_vars

\* Scenario S1 after its bar: the bar O=100 H=110 L=95 C=105 has been
\* processed, the strategy has not traded yet
S1_Before ==
    /\ config.starting_balance = 10000000
    /\ config.taker_fee = 0
    /\ account.total = 10000000
    /\ market_events = 1
    /\ book = update_from_bar(BarS1)
    /\ orders = <<>>

\* The strategy's on_bar handler submits the market BUY of 10
S1_MarketBuySubmitted ==
    /\ Len(orders') = 1
    /\ orders'[1].order_type = "MARKET"
    /\ orders'[1].side = "BUY"
    /\ orders'[1].quantity = 10

C7_Step ==
    (S1_Before /\ S1_MarketBuySubmitted) =>
        LET fills == EventsOf(emitted', "Filled", 1)
        IN /\ Len(fills) = 1
           /\ fills[1].qty = 10
           /\ fills[1].px = 10000
           /\ account'.total = 9900000
           /\ Len(positions') = 1
           /\ positions'[1].signed_qty = 10
           /\ avg_px_open(positions'[1]) = 10000 * PnlScale

\* C7: scenario S1: 100,000.00 of cash, no fees, the bar O=100 H=110 L=95
\* C=105 and a market BUY of 10 submitted at the bar's timestamp give exactly
\* one fill of 10 at 100.00, cash of 99,000.00 and one open long position
\* with avg_px_open = 100.00 and signed_qty = 10.
C7_ScenarioS1 == [][C7_Step]_vars

\* Scenario S3 before its bar: the long position and the OCO pair of a limit
\* SELL 10 at 110.00 (resting) and a stop-market SELL 10 at 95.00 (parked)
S3_Before ==
    /\ LongTenAtHundred
    /\ Len(resting) = 1
    /\ Len(stops) = 1
    /\ Siblings(resting[1], stops[1])
    /\ LET a == orders[resting[1]]
           b == orders[stops[1]]
       IN /\ a.side = "SELL"
          /\ a.order_type = "LIMIT"
          /\ a.quantity = 10
          /\ a.price = 11000
          /\ a.status = "ACCEPTED"
          /\ b.side = "SELL"
          /\ b.order_type = "STOP_MARKET"
          /\ b.quantity = 10
          /\ b.trigger_price = 9500
          /\ b.status = "ACCEPTED"

C8_Step ==
    (S3_Before /\ BarProcessed(BarS3)) =>
        LET a == resting[1]
            b == stops[1]
            fills == EventsOf(emitted', "Filled", a)
        IN /\ Len(fills) = 1
           /\ fills[1].qty = 10
           /\ fills[1].px = 11000
           /\ fills[1].last_price = BarS3.high
           /\ positions'[1].signed_qty = 0
           /\ positions'[1].realized_pnl = 10000 * PnlScale
           /\ orders'[b].status = "CANCELED"
           /\ fill_sum'[b] = 0
           /\ EventsOf(emitted', "Filled", b) = <<>>

\* C8: scenario S3 (NETTING): long 10 at 100.00 and the OCO pair {limit SELL
\* 10 at 110.00, stop-market SELL 10 at 95.00}; on the bar O=101 H=112 L=99
\* C=108 the limit fills at 110.00 at the high visit, the position closes
\* with realized_pnl = 100.00 and the sibling stop is canceled unfilled.
C8_ScenarioS3 == [][C8_Step]_vars

C9_Step ==
    \A a \in 1..Len(orders), b \in 1..Len(orders) :
        (Siblings(a, b) /\ is_open(orders[a]) /\ is_open(orders[b])) =>
            \A k \in 1..Len(emitted') :
                (/\ emitted'[k].type = "Filled"
                 /\ emitted'[k].id = a
                 /\ emitted'[k].status = "FILLED") =>
                    /\ orders'[b].status = "CANCELED"
                    /\ b \notin Range(resting') \cup Range(stops')
                    /\ \A m \in (k + 1)..Len(emitted') :
                           ~(emitted'[m].type = "Filled" /\ emitted'[m].id = b)

\* C9: once one order of an OCO list becomes Filled, every sibling that is
\* still open is removed from its queue and Canceled and receives no fill
\* afterwards, also when several siblings are candidates at the same price
\* visit.
C9_OcoFillCancelsSiblings == [][C9_Step]_vars

\* C10: a partial fill of an OCO order (its emitted fills sum to less than
\* its quantity) cancels no sibling; a sibling is canceled by a fill only
\* once the emitted fills of an order of the list reach its full quantity.
C10_PartialFillKeepsSiblings ==
    \A k \in 1..Len(emitted) :
        (/\ emitted[k].type = "Canceled"
         /\ \E j \in 1..(k - 1) :
                /\ emitted[j].type = "Filled"
                /\ Siblings(emitted[j].id, emitted[k].id))
        => \E a \in 1..Len(orders) :
               /\ Siblings(a, emitted[k].id)
               /\ fill_sum[a] = orders[a].quantity

\* The size the book offers to order o at admission: the sizes of the opposite
\* levels, for an order with a price only the levels within the limit
RECURSIVE SizeWithin(_, _)
SizeWithin(levels, o) ==
    IF levels = <<>> THEN 0
    ELSE (IF ~has_price(o) THEN Head(levels)[2]
          ELSE IF o.side = "BUY" /\ Head(levels)[1] <= o.price * RawScale
          THEN Head(levels)[2]
          ELSE IF o.side = "SELL" /\ Head(levels)[1] >= o.price * RawScale
          THEN Head(levels)[2]
          ELSE 0) + SizeWithin(Tail(levels), o)

AvailableTo(o, b) == SizeWithin(IF o.side = "BUY" THEN b.asks ELSE b.bids, o)

\* The step submitted a new order that the venue accepted
Admitted(id) ==
    /\ Len(orders') = Len(orders) + 1
    /\ id = Len(orders')
    /\ EventsOf(emitted', "Accepted", id) # <<>>

\* C11: a FOK order is all-or-nothing: when the size available to it at
\* admission (within the limit price for a limit order) is less than its
\* leaves_qty it receives no fill and is Canceled, otherwise it is filled
\* in full
C11_Step ==
    \A id \in 1..Len(orders') :
        (Admitted(id) /\ orders'[id].time_in_force = "FOK")
        => IF AvailableTo(orders'[id], book) < orders'[id].quantity
           THEN /\ EventsOf(emitted', "Filled", id) = <<>>
                /\ fill_sum'[id] = 0
                /\ orders'[id].status = "CANCELED"
           ELSE /\ fill_sum'[id] = orders'[id].quantity
                /\ orders'[id].status = "FILLED"

C11_FokAllOrNothing == [][C11_Step]_vars

DataTypes == {"Bar", "QuoteTick"}

\* C12: the venue's matching engine processes a market event, and every
\* fill, cancel and expire event that results has reached the strategy's
\* order callbacks, before the data engine publishes the same event to the
\* strategy's on_bar / on_quote_tick handler: the datum is the last delivery
\* of its step and is delivered on the state the matching engine left
C12_FillsBeforeData ==
    \A k \in 1..Len(emitted) :
        emitted[k].type \in DataTypes
        => /\ k = Len(emitted)
           /\ emitted[k].last_price = last_price
           /\ \A j \in 1..(k - 1) : emitted[j].type \notin DataTypes

\* A bar and a quote tick whose fills and cancels were delivered before it
C12_Witness ==
    /\ Len(emitted) >= 3
    /\ emitted[Len(emitted)].type \in DataTypes
    /\ \E j \in 1..(Len(emitted) - 1) : emitted[j].type = "Filled"
    /\ \E j \in 1..(Len(emitted) - 1) : emitted[j].type = "Canceled"

\* C13: the event loop processes the market events in non-decreasing
\* ts_event order whatever the order they were added in, and events of equal
\* ts_event in the order they were added; no event is lost or repeated
C13_ProcessedInTsOrder ==
    /\ \A i, j \in 1..Len(processed) :
           i < j => \/ processed[i].ts_event < processed[j].ts_event
                    \/ /\ processed[i].ts_event = processed[j].ts_event
                       /\ processed[i].n < processed[j].n
    /\ (pc = "stopped"
           => {processed[i].n : i \in 1..Len(processed)} = 1..Len(data))

\* A finished run whose data were added out of ts_event order and hold a tie
C13_Witness ==
    /\ pc = "stopped"
    /\ \E i, j \in 1..Len(processed) : i < j /\ processed[i].n > processed[j].n
    /\ \E i, j \in 1..Len(processed) :
           i < j /\ processed[i].ts_event = processed[j].ts_event

\* The open positions that belong to a strategy
OwnOpenPositions(pos, strategy_id) ==
    {i \in 1..Len(pos) :
        pos[i].signed_qty # 0 /\ pos[i].strategy_id = strategy_id}

\* C14: on a NETTING venue a strategy has at most one open position on the
\* instrument, and a fill of a strategy's order is applied to a position of
\* that strategy, never to the open position of another strategy: the
\* position event of every fill names a position of the order's strategy
C14_Step ==
    /\ \A st \in StrategyIds : Cardinality(OwnOpenPositions(positions', st)) <= 1
    /\ \A k \in 2..Len(emitted') :
           (emitted'[k].type = "Filled"
            /\ emitted'[k - 1].type \in PositionEventTypes)
           => positions'[emitted'[k - 1].id].strategy_id
                  = orders'[emitted'[k].id].strategy_id

C14_NettingPerStrategy == [][C14_Step]_vars

\* The net position of a strategy: the signed quantities of its own open
\* positions
RECURSIVE OwnNetPosition(_, _)
OwnNetPosition(pos, ids) ==
    IF ids = {} THEN 0
    ELSE LET i == CHOOSE x \in ids : TRUE
         IN pos[i].signed_qty + OwnNetPosition(pos, ids \ {i})

\* The step submitted the new order id
Submitted(id) == Len(orders') = Len(orders) + 1 /\ id = Len(orders')

\* C15: a reduce_only order is denied exactly when the submitting strategy's
\* own net position on the instrument is zero or on the wrong side (a BUY
\* requires a short, a SELL a long); the positions of other strategies do
\* not count
C15_Step ==
    \A id \in 1..Len(orders') :
        (Submitted(id) /\ orders'[id].reduce_only)
        => LET st == orders'[id].strategy_id
               own == OwnNetPosition(positions, OwnOpenPositions(positions, st))
           IN (EventsOf(emitted', "Denied", id) # <<>>)
              <=> \/ own = 0
                  \/ (orders'[id].side = "BUY" /\ own >= 0)
                  \/ (orders'[id].side = "SELL" /\ own <= 0)

C15_ReduceOnlyOwnPosition == [][C15_Step]_vars

\* C16: when submit_order fails a risk check an OrderDenied event is
\* published, the order's status becomes Denied, and the order is not routed
\* to the venue: it gets no Submitted, Accepted or Filled event
C16_Step ==
    \A id \in 1..Len(orders') :
        (Submitted(id) /\ ~check_order([State EXCEPT !.orders = orders'], id))
        => /\ EventsOf(emitted', "Denied", id) # <<>>
           /\ orders'[id].status = "DENIED"
           /\ EventsOf(emitted', "Submitted", id) = <<>>
           /\ EventsOf(emitted', "Accepted", id) = <<>>
           /\ EventsOf(emitted', "Filled", id) = <<>>
           /\ id \notin Range(resting') \cup Range(stops')

C16_DeniedOrder == [][C16_Step]_vars

\* C17: modify_order on an open resting limit order applies the Updated
\* event without error; the order has the new quantity and price and
\* leaves_qty = quantity - filled_qty, it stays open in status Accepted
\* unless the re-evaluation fills it, and a limit moved through the market
\* is filled at once
C17_Step ==
    \A id \in 1..Len(orders), m \in Modifications :
        (/\ ModifyOrder(id, m)
         /\ id \in Range(resting)
         /\ is_open(orders[id])
         /\ orders[id].order_type = "LIMIT")
        => /\ ~raised'
           /\ orders'[id].quantity = m.quantity
           /\ orders'[id].price = m.price
           /\ orders'[id].leaves_qty
                  = orders'[id].quantity - orders'[id].filled_qty
           /\ (EventsOf(emitted', "Filled", id) = <<>>
                  => orders'[id].status = "ACCEPTED" /\ id \in Range(resting'))
           /\ (would_fill_immediately([State EXCEPT !.orders = orders'], id)
                  => EventsOf(emitted', "Filled", id) # <<>>)

C17_ModifyRestingLimit == [][C17_Step]_vars

\* C18: cancel_order on an open order removes it from the three queues of the
\* matching engine (resting, stops, trailing), emits Canceled and leaves the
\* order in status Canceled; a Canceled order receives no fill from any
\* later step
C18_Step ==
    /\ \A id \in 1..Len(orders) :
           (CancelOrder(id) /\ is_open(orders[id]))
           => /\ ~raised'
              /\ id \notin Range(resting') \cup Range(stops')
                        \cup Range(trailing_stops')
              /\ EventsOf(emitted', "Canceled", id) # <<>>
              /\ orders'[id].status = "CANCELED"
    /\ \A id \in 1..Len(orders) :
           orders[id].status = "CANCELED"
           => /\ EventsOf(emitted', "Filled", id) = <<>>
              /\ fill_sum'[id] = fill_sum[id]
              /\ orders'[id].filled_qty = orders[id].filled_qty
              /\ orders'[id].status = "CANCELED"
              /\ id \notin Range(resting') \cup Range(stops')
                        \cup Range(trailing_stops')

C19_Step ==
    /\ \A id \in 1..Len(orders) :
           (CancelOrder(id) /\ ~apply_status(orders[id], "CANCELED").ok)
           => ~raised' /\ orders'[id] = orders[id]
    /\ \A id \in 1..Len(orders), m \in Modifications :
           (/\ ModifyOrder(id, m)
            /\ ~apply_updated(orders[id], m.quantity, m.price, m.trigger_price).ok)
           => ~raised' /\ orders'[id] = orders[id]

C19_RejectedTransitionDropped == [][C19_Step]_vars

\* C20: an exception a strategy's handler raises while a datum is delivered
\* does not abort the run: every handler subscribed to the datum is still
\* invoked, and the event loop goes on to the data that follow
C20_Step ==
    Len(processed') = Len(processed) + 1
    => /\ Len(SelectSeq(emitted', LAMBDA e : e.type \in DataTypes)) = Len(handlers)
       /\ pc' = "running"

C20_HandlerErrorIsolated == [][C20_Step]_vars

\* The trailing stops of the run: TrailingStopMarketOrder / TrailingStopLimitOrder
IsTrailing(o) ==
    o.order_type \in {"TRAILING_STOP_MARKET", "TRAILING_STOP_LIMIT"}

C25_Step ==
    \A i \in 1..Len(orders) :
        (IsTrailing(orders[i]) /\ orders[i].trigger_price # NoPrice) =>
            /\ orders'[i].trigger_price # NoPrice
            /\ orders[i].side = "SELL" =>
                   orders'[i].trigger_price >= orders[i].trigger_price
            /\ orders[i].side = "BUY" =>
                   orders'[i].trigger_price <= orders[i].trigger_price

\* C25: for every trailing stop, over any sequence of quote and bar-close
\* updates, the trigger price of a SELL order never decreases and the
\* trigger price of a BUY order never increases.
C25_TriggerRatchets == [][C25_Step]_vars

\* A SELL trailing stop whose trigger has been raised and is held while the
\* market is below its extreme, and a BUY trailing stop likewise
C25_Witness ==
    /\ \E i \in Range(trailing_stops) :
           /\ orders[i].side = "SELL"
           /\ orders[i].trigger_price > 9500
           /\ last_price < orders[i].extreme_price
    /\ \E i \in Range(trailing_stops) :
           /\ orders[i].side = "BUY"
           /\ orders[i].trigger_price # NoPrice
           /\ last_price > orders[i].extreme_price

\* Scenario S6: the triggers and the extremes after each of its six closes
S6Triggers == <<9500, 10000, 10500, 10500, 10500, 10500>>

S6Extremes == <<10000, 10500, 11000, 11000, 11000, 11000>>

\* Scenario S6 before its k-th close: the long position of 10 at 100.00 and
\* the parked trailing SELL stop of 10 with price offset 5.00, its trigger
\* and extreme as the closes so far have left them
S6_Before(k) ==
    /\ LongTenAtHundred
    /\ cursor = k + 1
    /\ processed = SubSeq(S6Data, 1, k)
    /\ Len(trailing_stops) = 1
    /\ LET o == orders[trailing_stops[1]]
       IN /\ o.side = "SELL"
          /\ o.order_type = "TRAILING_STOP_MARKET"
          /\ o.quantity = 10
          /\ o.trailing_offset = 500
          /\ o.trailing_offset_type = "PRICE"
          /\ o.status = "ACCEPTED"
          /\ o.trigger_price = IF k = 1 THEN NoPrice ELSE S6Triggers[k - 1]
          /\ o.extreme_price = IF k = 1 THEN NoPrice ELSE S6Extremes[k - 1]

\* The loop dispatches the bar of the k-th close of scenario S6
S6_Close(k) ==
    /\ processed' = SubSeq(S6Data, 1, k + 1)
    /\ last_price' = S6Closes[k + 1]

C26_Step ==
    \A k \in 1..Len(S6Triggers) :
        (S6_Before(k) /\ S6_Close(k)) =>
            LET i == trailing_stops[1]
                trig == EventsOf(emitted', "Triggered", i)
                fills == EventsOf(emitted', "Filled", i)
            IN /\ orders'[i].trigger_price = S6Triggers[k]
               /\ k < Len(S6Triggers) =>
                      /\ trig = <<>>
                      /\ fills = <<>>
                      /\ orders'[i].status = "ACCEPTED"
                      /\ trailing_stops' = trailing_stops
               /\ k = Len(S6Triggers) =>
                      /\ Len(trig) = 1
                      /\ Len(fills) = 1
                      /\ fills[1].qty = 10
                      /\ fills[1].px = 10500
                      /\ fills[1].px # last_price'
                      /\ trailing_stops' = <<>>
                      /\ positions'[1].signed_qty = 0

\* C26: scenario S6: a trailing SELL stop with price offset 5.00 protecting
\* a long of 10 at 100.00 and updated with the closes 100, 105, 110, 107,
\* 106, 104 has the triggers 95, 100, 105, 105, 105, 105, does not fire
\* before the close of 104, fires there and fills at its trigger price
\* 105.00, not at the market price.
C26_ScenarioS6 == [][C26_Step]_vars

\* The end of scenario S6: the six closes dispatched, the stop fired on the
\* last one and filled at 105.00, the position flat
C26_Witness ==
    /\ processed = S6Data
    /\ Len(orders) = 2
    /\ orders[2].order_type = "TRAILING_STOP_MARKET"
    /\ orders[2].trailing_offset = 500
    /\ orders[2].extreme_price = 11000
    /\ orders[2].trigger_price = 10500
    /\ orders[2].is_triggered
    /\ Len(EventsOf(emitted, "Filled", 2)) = 1
    /\ EventsOf(emitted, "Filled", 2)[1].px = 10500
    /\ last_price = 10400
    /\ positions[1].signed_qty = 0
    /\ positions[1].realized_pnl = 5000 * PnlScale

\* The orders the venue holds: resting, parked in the stops map or parked in
\* the trailing map
AtVenue(r, st, tr) == Range(r) \cup Range(st) \cup Range(tr)

C21_Step ==
    (\E bar \in TrailBars : BarProcessed(bar)) =>
        /\ \A i \in AtVenue(resting', stops', trailing_stops') :
               orders'[i].time_in_force # "DAY"
        /\ \A i \in 1..Len(orders) :
               (orders[i].time_in_force = "DAY" /\ is_open(orders[i])) =>
                   ~is_open(orders'[i])

\* C21: after the close step of any bar no DAY order remains open at the
\* venue: every DAY order resting in the book, parked in the stops map or
\* parked in the trailing map is expired at the bar close (and so cannot
\* fill on a later bar).
C21_DayOrdersExpireAtClose == [][C21_Step]_vars

C22_Step ==
    \A i \in 1..Len(orders) :
        (/\ orders[i].time_in_force = "GTD"
         /\ is_open(orders[i])
         /\ processed' # processed
         /\ data[cursor].ts_event >= orders[i].expire_time_ns) =>
            /\ orders'[i].status = "EXPIRED"
            /\ EventsOf(emitted', "Filled", i) = <<>>

\* C22: a GTD order still open when the simulation clock reaches its
\* expire_time_ns is expired at the first market event with
\* ts_event >= expire_time_ns and receives no fill at or after that time.
C22_GtdExpires == [][C22_Step]_vars

C23_Step ==
    \A id \in 1..Len(orders') :
        (Admitted(id) /\ orders'[id].time_in_force \in {"IOC", "FOK"}) =>
            /\ orders'[id].status \in {"FILLED", "CANCELED"}
            /\ id \notin AtVenue(resting', stops', trailing_stops')

\* C23: an IOC or FOK order of any order type is resolved within the
\* admission call: when process_order returns the order is Filled or
\* Canceled and is in none of the resting, stops or trailing queues.
C23_ImmediateOrdersResolved == [][C23_Step]_vars

\* The price px is no worse for the order than its limit
NoWorseThanLimit(o, px) ==
    IF o.side = "BUY" THEN px <= o.price ELSE px >= o.price

\* A book level of the opposite side at or through the order's limit that
\* gives the fill price px
LevelAtLimit(o, b, px) ==
    \E l \in Range(IF o.side = "BUY" THEN b.asks ELSE b.bids) :
        /\ IF o.side = "BUY" THEN l[1] <= o.price * RawScale
           ELSE l[1] >= o.price * RawScale
        /\ px = Quantize(l[1])

\* The fill events of the step that belong to orders with a limit price
LimitFills(log, ords) ==
    SelectSeq(log, LAMBDA e : e.type = "Filled" /\ has_price(ords[e.id]))

C24_Step ==
    \A e \in Range(LimitFills(emitted', orders')) :
        LET o == orders'[e.id]
        IN /\ NoWorseThanLimit(o, e.px)
           /\ IF \E bar \in LimitBars : BarProcessed(bar)
              THEN /\ \E bar \in LimitBars :
                         e.last_price \in {bar.open, bar.high, bar.low}
                   /\ NoWorseThanLimit(o, e.last_price)
                   /\ e.px = e.last_price
              ELSE LevelAtLimit(o, book', e.px)

\* C24: every fill of a limit order, at admission, on a quote update or at
\* a bar price visit, is priced no worse than its limit (fill price <=
\* limit for a BUY, >= limit for a SELL) and occurs only against a book
\* level or a visited price at or through the limit.
C24_LimitFillWithinLimit == [][C24_Step]_vars

\* Fills with price improvement from the three sources: a limit BUY at
\* 100.00 filled at the bar's low 97.00, and a fill below the limit against
\* the ask of a quote
C24_Witness ==
    \E e \in Range(LimitFills(emitted, orders)) :
        /\ orders[e.id].side = "BUY"
        /\ e.px < orders[e.id].price
        /\ e.px \in {9700, 9900}

\* The limit of order o reaches the best opposite price of book b
CrossesBest(o, b) ==
    IF o.side = "BUY"
    THEN b.asks # <<>> /\ o.price * RawScale >= best_ask_price(b)
    ELSE b.bids # <<>> /\ o.price * RawScale <= best_bid_price(b)

C27_Step ==
    \A id \in 1..Len(orders') :
        (/\ Admitted(id)
         /\ orders'[id].post_only
         /\ CrossesBest(orders'[id], book)) =>
            /\ EventsOf(emitted', "Filled", id) = <<>>
            /\ Len(EventsOf(emitted', "Canceled", id)) = 1
            /\ orders'[id].status = "CANCELED"
            /\ orders'[id].filled_qty = 0
            /\ book' = book
            /\ resting' = resting

Count(seq, Test(_)) == Len(SelectSeq(seq, Test))

\* The timers of the clock that are due at ts_ns
Due(c, ts_ns) == SelectSeq(c.timers, LAMBDA t : t.fire_at <= ts_ns)

C30_Step ==
    (processed' # processed) =>
        LET ts == data[cursor].ts_event
            log == clock'.fired
        IN /\ \A k \in 1..Len(clock.timers) :
                  clock.timers[k].fire_at <= ts =>
                      Count(log, LAMBDA te :
                                te.name = clock.timers[k].name
                                /\ te.ts_event = clock.timers[k].fire_at)
                      = Count(Due(clock, ts), LAMBDA t :
                                  t.name = clock.timers[k].name
                                  /\ t.fire_at = clock.timers[k].fire_at)
           /\ \A i, j \in 1..Len(log) :
                  i < j => log[i].ts_event <= log[j].ts_event

\* C30: when the event loop advances the clock to an event's ts_event, each
\* alarm with fire_at <= ts_event has its callback invoked exactly once, in
\* ascending fire_at order.
C30_AlarmsFireOnce == [][C30_Step]_vars

\* The topic t begins with the characters of p
BeginsWith(t, p) == Len(p) <= Len(t) /\ \A i \in 1..Len(p) : t[i] = p[i]

\* The subscriptions of a bus: exact ones, and wildcard ones with the place
\* of their prefix among the registered prefixes
ExactSubs(b) == UNION {Range(b.exact[k].subs) : k \in 1..Len(b.exact)}

WildSubs(b) == UNION {Range(b.prefix[k].subs) : k \in 1..Len(b.prefix)}

PrefixPlace(b, x) ==
    CHOOSE k \in 1..Len(b.prefix) : b.prefix[k].key = strip_wildcard(x.topic)

\* The subscriptions that are to receive a message published to topic
Recipients(b, topic) ==
    {x \in ExactSubs(b) : x.topic = topic}
    \cup {x \in WildSubs(b) : BeginsWith(topic, strip_wildcard(x.topic))}

\* The subscription x is served before the subscription y
ServedBefore(b, x, y) ==
    IF x \in ExactSubs(b) /\ y \in ExactSubs(b) THEN x.sub_id < y.sub_id
    ELSE IF x \in ExactSubs(b) THEN TRUE
    ELSE IF y \in ExactSubs(b) THEN FALSE
    ELSE IF PrefixPlace(b, x) = PrefixPlace(b, y) THEN x.sub_id < y.sub_id
    ELSE PrefixPlace(b, x) < PrefixPlace(b, y)

\* The calls log are the delivery of one message published to topic on the
\* subscriptions of b: every recipient once, in the dispatch order
DeliveryOf(b, topic, log) ==
    /\ Len(log) = Cardinality(Recipients(b, topic))
    /\ {log[i] : i \in 1..Len(log)} = {x.sub_id : x \in Recipients(b, topic)}
    /\ \A i, j \in 1..Len(log) :
           i < j =>
               \E x, y \in Recipients(b, topic) :
                   /\ x.sub_id = log[i]
                   /\ y.sub_id = log[j]
                   /\ ServedBefore(b, x, y)

\* The step left the subscriptions of the bus as they were
SubscriptionsKept ==
    /\ bus'.exact = bus.exact
    /\ bus'.prefix = bus.prefix
    /\ bus'.next_id = bus.next_id

C28_Step ==
    \A t \in PublishTopics :
        (Publish(t) /\ SubscriptionsKept) =>
            /\ ~bus'.failed
            /\ DeliveryOf(bus, t, bus'.delivered)

C29_Step ==
    \A t \in PublishTopics :
        Publish(t) =>
            /\ ~bus'.failed
            /\ DeliveryOf(bus, t, bus'.delivered)

\* C29: dispatch iterates over a snapshot of the subscriptions: a handler
\* that subscribes or unsubscribes (an exact topic or a new wildcard prefix)
\* while a message is being dispatched neither changes which handlers
\* receive that message nor makes publish fail.
C29_DispatchOverSnapshot == [][C29_Step]_vars

\* The last event of a type in the log
LastOf(log, type) ==
    LET evs == SelectSeq(log, LAMBDA e : e.type = type) IN evs[Len(evs)]

\* Position k is taken through zero by the step
ThroughZero(k) ==
    /\ k \in DOMAIN positions'
    /\ positions[k].signed_qty * positions'[k].signed_qty < 0

C31_Step ==
    \A k \in 1..Len(positions) :
        ThroughZero(k) =>
            avg_px_open(positions'[k]) = LastOf(emitted', "Filled").px * PnlScale

\* C31: when a fill takes a position through zero, the overflow opens the
\* new direction with avg_px_open reseeded to the price of that fill, so
\* that later closing fills are valued against the fills of the open leg
\* only.
C31_FlipReseedsAvgPx == [][C31_Step]_vars

\* C32: two runs of the engine with identical inputs (venue, instrument,
\* strategy, market data) produce identical BacktestResult values, field
\* for field.
C32_RunsAreDeterministic ==
    \A i \in DOMAIN results, j \in DOMAIN results : results[i] = results[j]

\* C33: after any sequence of order-book deltas, quote ticks and bars,
\* whenever both sides of the book are non-empty, best_bid < best_ask.
C33_BookNotCrossed ==
    (book.bids # <<>> /\ book.asks # <<>>) =>
        best_bid_price(book) < best_ask_price(book)

\* A market order that is neither IOC nor FOK and is open
QueuedMarket(o) ==
    /\ o.order_type = "MARKET"
    /\ o.time_in_force \notin {"IOC", "FOK"}
    /\ is_open(o)

C34_Step ==
    /\ \A id \in 1..Len(orders') :
           QueuedMarket(orders'[id]) =>
               id \in AtVenue(resting', stops', trailing_stops')
    /\ \A id \in 1..Len(orders), bar \in Bars :
           (ProcessBar(bar, MaxMarketEvents) /\ QueuedMarket(orders[id])) =>
               \E k \in 1..Len(emitted') :
                   /\ emitted'[k].type = "Filled"
                   /\ emitted'[k].id = id
                   /\ emitted'[k].px = bar.open

\* C34: a market order that is not IOC/FOK and cannot be filled in full at
\* admission because the book is empty or too thin stays queued at the
\* venue and its remainder is filled at the open price of the next bar; it
\* is never left in an open status while tracked by no matching-engine
\* queue.
C34_MarketOrderStaysQueued == [][C34_Step]_vars

C35_Step ==
    cursor' # cursor =>
        /\ \A k \in 1..Len(clock'.timers) :
               clock'.timers[k].fire_at > clock'.time_ns
        /\ \A k \in 1..Len(clock.timers), n \in 0..clock'.time_ns :
               LET tm == clock.timers[k]
               IN (tm.repeat /\ tm.interval_ns > 0
                   /\ tm.fire_at + n * tm.interval_ns <= clock'.time_ns) =>
                      \E e \in Range(clock'.fired) :
                          /\ e.name = tm.name
                          /\ e.ts_event = tm.fire_at + n * tm.interval_ns

\* C35: after the clock has been advanced to ts, no registered timer has
\* fire_at <= ts: a repeating timer whose interval is shorter than the gap
\* between two consecutive market events fires once for every elapsed
\* interval up to ts.
C35_TimersDrained == [][C35_Step]_vars

C36_Step ==
    \A id \in Range(stops) :
        (/\ market_events' = market_events + 1
         /\ orders[id].order_type = "STOP_MARKET"
         /\ is_open(orders[id])
         /\ OwnTriggerPredicate(orders[id], last_price')) =>
            /\ EventsOf(emitted', "Triggered", id) # <<>>
            /\ EventsOf(emitted', "Filled", id) # <<>>
            /\ id \notin Range(stops')

\* C36: on a tick-driven feed a parked stop-market order is triggered and
\* filled by the first quote or trade tick whose price satisfies its
\* trigger predicate (SELL: price <= trigger_price; BUY: price >=
\* trigger_price); no Bar event is needed.
C36_TicksTriggerStops == [][C36_Step]_vars

C37_Step ==
    \A k \in 1..Len(emitted') :
        (/\ market_events' = market_events + 1
         /\ emitted'[k].type \in {"Filled", "Canceled", "Expired", "Triggered"}
         /\ emitted'[k].id \in 1..Len(orders)) =>
            emitted'[k].ts_event = market_events'

\* C37: every order event (fill, cancel, expire, trigger) that the matching
\* engine emits while processing a market event with timestamp t carries
\* ts_event = t, also for resting limit orders filled by a quote tick, a
\* trade tick or an order-book delta.
C37_EventsCarryDatumTime == [][C37_Step]_vars

C38_Step ==
    \A id \in 1..Len(orders') :
        (orders'[id].reduce_only /\ EventsOf(emitted', "Filled", id) # <<>>) =>
            LET st == orders'[id].strategy_id
                before == OwnNetPosition(positions,
                                         OwnOpenPositions(positions, st))
                after == OwnNetPosition(positions',
                                        OwnOpenPositions(positions', st))
            IN /\ before * after >= 0
               /\ (IF after < 0 THEN -after ELSE after)
                      <= (IF before < 0 THEN -before ELSE before)

\* C38: fills of an accepted reduce_only order only reduce the strategy's
\* position: they never increase its absolute size and never flip its
\* sign, even when the order quantity exceeds the open position.
C38_ReduceOnlyNeverFlips == [][C38_Step]_vars

C39_Step ==
    \A k \in 1..Len(positions) :
        (/\ ClosePosition(k, MaxCloseOrders)
         /\ EventsOf(emitted', "Filled", Len(orders')) # <<>>
         /\ orders'[Len(orders')].status = "FILLED") =>
            /\ positions'[k].signed_qty = 0
            /\ EventsOf(emitted', "PositionClosed", k) # <<>>
            /\ Len(positions') = Len(positions)

\* C39: Strategy.close_position(p) on an open position p results, once
\* its market order fills, in p itself being closed (signed_qty = 0,
\* PositionClosed published) with no new position opened, on HEDGING
\* venues (the default of add_venue) as well as on NETTING venues.
C39_ClosePositionClosesIt == [][C39_Step]_vars

\* The same on NETTING venues only
C39_Netting == [][config.oms_type = "NETTING" => C39_Step]_vars

\* The order and position events of the last step all reached the strategy
C40_EventsReceived ==
    received(bus, emitted) = SelectSeq(emitted, LAMBDA e : e.type \notin DataEventTypes)

\* Every run began with the configured starting balance
C40_StartingBalance ==
    \A i \in DOMAIN results : results[i].starting_balance = config.starting_balance

\* The runs ended with the same numbers of orders, fills and positions
C40_SameOrdersAndFills ==
    \A i \in DOMAIN results, j \in DOMAIN results :
        /\ results[i].total_orders = results[j].total_orders
        /\ results[i].total_fills = results[j].total_fills
        /\ results[i].total_positions = results[j].total_positions

\* C40: after BacktestEngine.reset(), re-adding the same data and calling
\* run() again behaves like the first run: strategies still receive their
\* order and position events, the account starts from the configured
\* starting balance, and the same orders and fills result.
C40_ResetThenRunRepeats ==
    /\ C40_EventsReceived
    /\ C40_StartingBalance
    /\ C40_SameOrdersAndFills

====
